---- MODULE Spec2Model ----
(***************************************************************************)
(* Content moderation pipeline (ContentModerator.moderate), its scanners   *)
(* and the decision engine, plus the lazily initialised process-wide       *)
(* handles used by the API layer.                                          *)
(*                                                                         *)
(* Every score is an integer in units of 1/10000 (One = 1.0), so the       *)
(* 3-decimal values the code rounds to are the multiples of 10.            *)
(***************************************************************************)
EXTENDS Integers, Sequences, FiniteSets, TLC

One == 10 * 1000

\* ------------------------------------------------------------------------
\* Bounds of the model
\* ------------------------------------------------------------------------
MaxLen == 1
MaxCalls == 1
MaxEvents == 2
MaxThreads == 2

\* ------------------------------------------------------------------------
\* Arithmetic helpers
\* ------------------------------------------------------------------------
Min2(a, b) == IF a <= b THEN a ELSE b

Max2(a, b) == IF a >= b THEN a ELSE b

Max3(a, b, c) == Max2(a, Max2(b, c))

\* round(x, 3) of a non-negative value given in units of 1/10000:
\* the nearest multiple of 10, an exact tie going to the even thousandth.
Round3(x) ==
    LET q == x \div 10
        r == x % 10
    IN  IF r > 5 \/ (r = 5 /\ q % 2 = 1) THEN (q + 1) * 10 ELSE q * 10

\* score * weight, both in units of 1/10000
Times(a, b) == (a * b) \div One

RECURSIVE SeqSum(_)
SeqSum(s) == IF s = <<>> THEN 0 ELSE Head(s) + SeqSum(Tail(s))

Prefix(s, n) == SubSeq(s, 1, Min2(n, Len(s)))

RECURSIVE Dedupe(_)
\* list(dict.fromkeys(xs)): first occurrences, order kept
Dedupe(s) ==
    IF s = <<>> THEN <<>>
    ELSE LET d == Dedupe(SubSeq(s, 1, Len(s) - 1))
             x == s[Len(s)]
         IN  IF \E i \in 1..Len(d) : d[i] = x THEN d ELSE Append(d, x)

\* ------------------------------------------------------------------------
\* ModerationConfig
\* ------------------------------------------------------------------------
DEFAULT_CONFIG ==
    [ block_threshold |-> 5000, flag_threshold |-> 2000, min_block_signals |-> 1,
      finance_pass_threshold |-> 1500, finance_flag_threshold |-> 500,
      scam_weight |-> 7000, toxicity_weight |-> 7000,
      fuzzy_threshold |-> 8000, fuzzy_weight |-> 4000, enable_fuzzy |-> TRUE,
      semantic_threshold |-> 7200, semantic_weight |-> 6000, enable_semantic |-> TRUE ]

LIGHTWEIGHT_CONFIG ==
    [ DEFAULT_CONFIG EXCEPT !.enable_fuzzy = FALSE, !.enable_semantic = FALSE ]

Configs == { DEFAULT_CONFIG, LIGHTWEIGHT_CONFIG }

\* ------------------------------------------------------------------------
\* DecisionEngine
\* ------------------------------------------------------------------------
DECISION_BLOCK == "BLOCK"
DECISION_FLAG == "FLAG"
DECISION_PASS == "PASS"

HighSeverityCategories ==
    { "hate_speech", "personal_attack", "severe_profanity", "threat",
      "harassment", "doxxing", "defamation" }

EmptyMatchResult == [ score |-> 0, matches |-> <<>> ]

\* Python's None and the empty dict are both the record with no field
None == [ k \in {} |-> 0 ]

\* dict.get(key, default)
Get(d, key, default) == IF key \in DOMAIN d THEN d[key] ELSE default

\* "x or default": a falsy (None / empty) dict is replaced
OrDefault(d, default) == IF DOMAIN d = {} THEN default ELSE d

\* the fusion with fuzzy and semantic summed in rather than taken by max
_calculate_risk_score_SumAll(cfg, scam, toxic, fuzzy, semantic) ==
    Round3(Times(Get(scam, "score", 0), cfg.scam_weight)
             + Times(Get(toxic, "score", 0), cfg.toxicity_weight)
             + Times(Get(fuzzy, "score", 0), cfg.fuzzy_weight)
             + Times(Get(semantic, "score", 0), cfg.semantic_weight))

_calculate_risk_score(cfg, scam, toxic, fuzzy, semantic) ==
    LET rule_score == Times(Get(scam, "score", 0), cfg.scam_weight)
                        + Times(Get(toxic, "score", 0), cfg.toxicity_weight)
        fuzzy_w == Times(Get(fuzzy, "score", 0), cfg.fuzzy_weight)
        semantic_w == Times(Get(semantic, "score", 0), cfg.semantic_weight)
    IN  Round3(Max3(rule_score, fuzzy_w, semantic_w))

\* the scam flags collected whatever the rule score
_get_scam_flags_NoFloor(result) ==
    [ flags |-> [ i \in 1..Len(result.signals) |->
                    <<"scam", result.signals[i].pattern>> ],
      count |-> Cardinality({ i \in 1..Len(result.signals) :
                                result.signals[i].severity = "high" }) ]

\* each _get_*_flags returns [flags, count]
_get_scam_flags(result) ==
    IF result.score >= 2000
    THEN [ flags |-> [ i \in 1..Len(result.signals) |->
                         <<"scam", result.signals[i].pattern>> ],
           count |-> Cardinality({ i \in 1..Len(result.signals) :
                                     result.signals[i].severity = "high" }) ]
    ELSE [ flags |-> <<>>, count |-> 0 ]

_get_fuzzy_flags(result) ==
    LET ms == Prefix(result.matches, 3)
    IN  [ flags |-> [ i \in 1..Len(ms) |-> <<"fuzzy", ms[i].matched>> ],
          count |-> Cardinality({ i \in 1..Len(ms) : ms[i].severity = "high" }) ]

\* "{similarity:.0%}": the similarity as a whole percentage
Percent(sim) == Round3(sim \div 10) \div 10

_get_semantic_flags(result) ==
    LET ms == Prefix(result.matches, 2)
    IN  [ flags |-> [ i \in 1..Len(ms) |->
                        <<"semantic", ToString(Percent(ms[i].similarity))>> ],
          count |-> Cardinality({ i \in 1..Len(ms) : ms[i].severity = "high" }) ]

ToxicCategoryAt(categories, i) ==
    IF i <= Len(categories) THEN categories[i]
    ELSE IF categories # <<>> THEN categories[1] ELSE "toxicity"

_get_toxic_flags(result) ==
    IF ~result.is_toxic THEN [ flags |-> <<>>, count |-> 0 ]
    ELSE
      LET categories == result.categories
          matched == result.matched
      IN  IF matched # <<>>
          THEN [ flags |-> [ i \in 1..Len(matched) |->
                               <<"toxic", ToxicCategoryAt(categories, i), matched[i]>> ],
                 count |-> Cardinality({ i \in 1..Len(matched) :
                             ToxicCategoryAt(categories, i) \in HighSeverityCategories }) ]
          ELSE [ flags |-> [ i \in 1..Len(categories) |-> <<"toxic", categories[i]>> ],
                 count |-> Cardinality({ i \in 1..Len(categories) :
                             categories[i] \in HighSeverityCategories }) ]

_collect_flags(scam, toxic, fuzzy, semantic) ==
    LET s == _get_scam_flags(scam)
        f == _get_fuzzy_flags(fuzzy)
        m == _get_semantic_flags(semantic)
        t == _get_toxic_flags(toxic)
    IN  [ flags |-> s.flags \o f.flags \o m.flags \o t.flags,
          count |-> s.count + f.count + m.count + t.count ]

FlagReason(flag) ==
    IF flag[1] = "scam" THEN << <<"scam pattern detected">> >>
    ELSE IF flag[1] = "fuzzy" THEN << <<"misspelled scam phrase detected">> >>
    ELSE IF flag[1] = "semantic" THEN << <<"similar to known scam">> >>
    ELSE IF flag[1] = "toxic" THEN << Tail(flag) \o <<"content">> >>
    ELSE IF flag = <<"off_topic">> THEN << <<"not finance related">> >>
    ELSE IF flag = <<"low_finance_relevance">> THEN << <<"low finance relevance">> >>
    ELSE <<>>

RECURSIVE FlagReasons(_)
FlagReasons(flags) ==
    IF flags = <<>> THEN <<>> ELSE FlagReason(Head(flags)) \o FlagReasons(Tail(flags))

_build_explanation(flags, action) ==
    IF flags = <<>>
    THEN [ head |-> "based on risk score", action |-> action, reasons |-> <<>> ]
    ELSE [ head |-> "reasons", action |-> action,
           reasons |-> Dedupe(FlagReasons(Prefix(flags, 3))) ]

\* the verdict rule with BLOCK asking for both the risk and the signal count
_determine_verdict_BlockNeedsBoth(cfg, result, score, severity_count) ==
    IF score >= cfg.block_threshold /\ severity_count >= cfg.min_block_signals
    THEN [ result EXCEPT !.decision = DECISION_BLOCK,
                         !.explanation = _build_explanation(result.flags, "blocked"),
                         !.confidence = Min2(9900, score) ]
    ELSE IF score >= cfg.flag_threshold \/ (severity_count >= 1 /\ score >= 1000)
    THEN [ result EXCEPT !.decision = DECISION_FLAG,
                         !.explanation = _build_explanation(result.flags, "flagged"),
                         !.confidence = score ]
    ELSE [ result EXCEPT !.explanation =
             [ head |-> "Content appears safe", action |-> "", reasons |-> <<>> ] ]

_determine_verdict(cfg, result, score, severity_count) ==
    IF score >= cfg.block_threshold \/ severity_count >= cfg.min_block_signals
    THEN [ result EXCEPT !.decision = DECISION_BLOCK,
                         !.explanation = _build_explanation(result.flags, "blocked"),
                         !.confidence = Min2(9900, score) ]
    ELSE IF score >= cfg.flag_threshold \/ (severity_count >= 1 /\ score >= 1000)
    THEN [ result EXCEPT !.decision = DECISION_FLAG,
                         !.explanation = _build_explanation(result.flags, "flagged"),
                         !.confidence = score ]
    ELSE [ result EXCEPT !.explanation =
             [ head |-> "Content appears safe", action |-> "", reasons |-> <<>> ] ]

TopicGate(cfg, finance_score, is_finance) ==
    finance_score < cfg.finance_flag_threshold \/ (finance_score < 1500 /\ ~is_finance)

\* decide with the fusion run first and the topic gate applied to its result
decide_FuseFirst(cfg, domain_result, scam_result, toxicity_result, fuzzy_in, semantic_in) ==
    LET fuzzy_result == OrDefault(fuzzy_in, EmptyMatchResult)
        semantic_result == OrDefault(semantic_in, EmptyMatchResult)
        risk_score == _calculate_risk_score(cfg, scam_result, toxicity_result,
                                            fuzzy_result, semantic_result)
        collected == _collect_flags(scam_result, toxicity_result,
                                    fuzzy_result, semantic_result)
        result == [ decision |-> DECISION_PASS, confidence |-> One,
                    risk_score |-> risk_score,
                    is_finance_related |-> domain_result.is_finance,
                    flags |-> collected.flags,
                    explanation |-> [ head |-> "", action |-> "", reasons |-> <<>> ] ]
        finance_score == domain_result.score
    IN  IF TopicGate(cfg, finance_score, domain_result.is_finance)
        THEN [ verdict |->
                 [ result EXCEPT !.decision = DECISION_BLOCK,
                                 !.flags = << <<"off_topic">> >> \o @,
                                 !.explanation = [ head |-> "Content is not related to finance",
                                                   action |-> "", reasons |-> <<>> ],
                                 !.confidence = One - finance_score ],
               high_sev_count |-> collected.count, fused |-> FALSE ]
        ELSE [ verdict |-> _determine_verdict(cfg, result, risk_score, collected.count),
               high_sev_count |-> collected.count, fused |-> TRUE ]

\* decide returns the verdict; high_sev_count is kept beside it so that the
\* engine's local count can be observed
decide(cfg, domain_result, scam_result, toxicity_result, fuzzy_in, semantic_in) ==
    LET fuzzy_result == OrDefault(fuzzy_in, EmptyMatchResult)
        semantic_result == OrDefault(semantic_in, EmptyMatchResult)
        result == [ decision |-> DECISION_PASS, confidence |-> One, risk_score |-> 0,
                    is_finance_related |-> domain_result.is_finance,
                    flags |-> <<>>,
                    explanation |-> [ head |-> "", action |-> "", reasons |-> <<>> ] ]
        finance_score == domain_result.score
        is_finance == domain_result.is_finance
    IN  IF TopicGate(cfg, finance_score, is_finance)
        THEN [ verdict |->
                 [ result EXCEPT !.decision = DECISION_BLOCK,
                                 !.flags = << <<"off_topic">> >>,
                                 !.explanation = [ head |-> "Content is not related to finance",
                                                   action |-> "", reasons |-> <<>> ],
                                 !.confidence = One - finance_score ],
               high_sev_count |-> 0, fused |-> FALSE ]
        ELSE
          LET flags0 == IF finance_score < cfg.finance_pass_threshold
                        THEN << <<"low_finance_relevance">> >> ELSE <<>>
              risk_score == _calculate_risk_score(cfg, scam_result, toxicity_result,
                                                  fuzzy_result, semantic_result)
              collected == _collect_flags(scam_result, toxicity_result,
                                          fuzzy_result, semantic_result)
              result1 == [ result EXCEPT !.risk_score = risk_score,
                                         !.flags = flags0 \o collected.flags ]
          IN  [ verdict |-> _determine_verdict(cfg, result1, risk_score, collected.count),
                high_sev_count |-> collected.count, fused |-> TRUE ]

\* ------------------------------------------------------------------------
\* RuleEngine
\* ------------------------------------------------------------------------
\* weight of a keyword class when scam_patterns.json gives none
KeywordWeight == 5000

\* the pattern classes in the order check scans them; `hits` below is the
\* set of classes of which the text matches a pattern
RulePatterns ==
    << [ pattern |-> "kw_high", severity |-> "high", weight |-> KeywordWeight ],
       [ pattern |-> "kw_medium", severity |-> "medium", weight |-> KeywordWeight ],
       [ pattern |-> "kw_low", severity |-> "low", weight |-> KeywordWeight ],
       [ pattern |-> "money_request", severity |-> "high", weight |-> 8000 ],
       [ pattern |-> "regex", severity |-> "high", weight |-> 7000 ],
       [ pattern |-> "solicitation_detection", severity |-> "high", weight |-> 6000 ],
       [ pattern |-> "mlm_detection", severity |-> "high", weight |-> 8000 ] >>

RuleKinds == { RulePatterns[i].pattern : i \in 1..Len(RulePatterns) }

RECURSIVE SelectSeq2(_, _)
\* the sub-sequence of the records of s whose pattern is in hits
SelectSeq2(s, hits) ==
    IF s = <<>> THEN <<>>
    ELSE IF Head(s).pattern \in hits
         THEN <<Head(s)>> \o SelectSeq2(Tail(s), hits)
         ELSE SelectSeq2(Tail(s), hits)

RECURSIVE WeightSum(_)
WeightSum(s) == IF s = <<>> THEN 0 ELSE Head(s).weight + WeightSum(Tail(s))

\* the filter that keeps every signal
LowOnly_KeepAll(s) == s

RECURSIVE LowOnly(_)
LowOnly(s) ==
    IF s = <<>> THEN <<>>
    ELSE IF Head(s).severity = "low" THEN <<Head(s)>> \o LowOnly(Tail(s))
         ELSE LowOnly(Tail(s))

\* the families of context phrases _check_context looks for; `tiers` is the
\* set of families of which the text contains a phrase
ContextTiers == { "whitelist", "strong", "medium", "opinion", "question", "past_tense" }

\* the context tiers with a strong phrase weighing as a medium one
_check_context_StrongAsMedium(tiers) ==
    IF "whitelist" \in tiers THEN 9000
    ELSE LET r1 == IF "strong" \in tiers \/ "medium" \in tiers THEN 7000 ELSE 0
             r2 == IF "opinion" \in tiers THEN Max2(r1, 4000) ELSE r1
             r3 == IF "question" \in tiers THEN Max2(r2, 3000) ELSE r2
             r4 == IF "past_tense" \in tiers THEN Max2(r3, 3000) ELSE r3
         IN  r4

_check_context(tiers) ==
    IF "whitelist" \in tiers THEN 9000
    ELSE IF "strong" \in tiers THEN 9000
    ELSE LET r1 == IF "medium" \in tiers THEN 7000 ELSE 0
             r2 == IF "opinion" \in tiers THEN Max2(r1, 4000) ELSE r1
             r3 == IF "question" \in tiers THEN Max2(r2, 3000) ELSE r2
             r4 == IF "past_tense" \in tiers THEN Max2(r3, 3000) ELSE r3
         IN  r4

RuleSeverity(final_score) ==
    IF final_score >= 7000 THEN "high"
    ELSE IF final_score >= 4000 THEN "medium"
    ELSE IF final_score > 0 THEN "low"
    ELSE "none"

\* RuleEngine.check; `scanned` records whether the keyword/regex scans ran
RuleEngine_check(tiers, hits) ==
    LET context_reduction == _check_context(tiers)
    IN  IF context_reduction >= 9000
        THEN [ score |-> 0, signals |-> <<>>, severity |-> "none",
               has_whitelist_context |-> TRUE,
               context_reduction |-> context_reduction,
               skipped_reason |-> "strong_whitelist_context", scanned |-> FALSE ]
        ELSE
          LET found == SelectSeq2(RulePatterns, hits)
              raw0 == WeightSum(found)
              reduce == context_reduction > 0 /\ raw0 > 0
              raw1 == IF reduce THEN Times(raw0, One - context_reduction) ELSE raw0
              sig1 == IF reduce /\ context_reduction >= 5000 THEN <<>> ELSE found
              final0 == Min2(One, raw1)
              final1 == IF context_reduction > 0
                        THEN Max2(0, Times(final0, One - context_reduction))
                        ELSE final0
              sig2 == IF context_reduction > 0 /\ final1 < 2000 THEN LowOnly(sig1) ELSE sig1
          IN  [ score |-> Round3(final1), signals |-> sig2,
                severity |-> RuleSeverity(final1),
                has_whitelist_context |-> context_reduction > 0,
                context_reduction |-> context_reduction,
                skipped_reason |-> "", scanned |-> TRUE ]

\* ------------------------------------------------------------------------
\* ToxicityChecker
\* ------------------------------------------------------------------------
\* (category, fixed weight) in the order check runs _check_pattern_set
ToxicChecks ==
    << [ category |-> "severe_profanity", score |-> 6000 ],
       [ category |-> "mild_profanity", score |-> 3000 ],
       [ category |-> "personal_attack", score |-> 5000 ],
       [ category |-> "threat", score |-> 6000 ],
       [ category |-> "harassment", score |-> 6000 ],
       [ category |-> "mockery", score |-> 4000 ],
       [ category |-> "doxxing", score |-> 7000 ] >>

ToxicSetCategories == { ToxicChecks[i].category : i \in 1..Len(ToxicChecks) }

\* what else the text shows to the toxicity scanner
ToxicExtras == { "defamation", "hate_speech", "spam" }

_add_match(result, category, term, score) ==
    [ result EXCEPT
        !.categories = IF \E i \in 1..Len(@) : @[i] = category THEN @
                       ELSE Append(@, category),
        !.matched = Append(@, term),
        !.score = @ + score ]

RECURSIVE _check_pattern_set_NoBreak(_, _, _, _)
\* the loop over a pattern set without its break
_check_pattern_set_NoBreak(matching, category, score, result) ==
    IF matching = <<>> THEN result
    ELSE _check_pattern_set_NoBreak(Tail(matching), category, score,
                                    _add_match(result, category, Head(matching), score))

\* matching: the terms of the pattern set that occur in the text, in the
\* order of the loop; the first one is added and ends the loop
_check_pattern_set(matching, category, score, result) ==
    IF matching = <<>> THEN result
    ELSE _add_match(result, category, Head(matching), score)

\* the terms of a category that occur in a text that holds n of them
MatchingTerms(category, n) == [ i \in 1..n |-> category \o "_term" ]

RECURSIVE CheckPatternSets(_, _, _)
\* the loop over `checks`; count[c] is the number of terms of the pattern set
\* of category c that occur in the text
CheckPatternSets(checks, count, result) ==
    IF checks = <<>> THEN result
    ELSE LET c == Head(checks)
         IN  CheckPatternSets(Tail(checks), count,
                              _check_pattern_set(MatchingTerms(c.category, count[c.category]),
                                                 c.category, c.score, result))

\* the PERSON / ORG / GPE entities of the linguistic result
_find_target_entities(linguistic_result) ==
    IF Get(linguistic_result, "is_available", FALSE)
    THEN LET ents == Get(linguistic_result, "entities", <<>>)
         IN  SelectSeq(ents, LAMBDA e : e.label \in { "PERSON", "ORG", "GPE" })
    ELSE <<>>

\* n defamation patterns occur in the text without negation; the first one
\* counts and ends the loop
_check_defamation(n, result, linguistic_result) ==
    LET mentioned_entities == _find_target_entities(linguistic_result)
    IN  IF mentioned_entities = <<>> THEN result
        ELSE IF n > 0
        THEN [ result EXCEPT !.categories = Append(@, "defamation"),
                             !.matched = Append(@, "entity_defamation_pattern"),
                             !.score = @ + 7000 ]
        ELSE result

\* count: for each category, the number of its terms (patterns, indicators)
\* that occur in the text
ToxicityChecker_scan(whitelisted, count, linguistic_result) ==
    LET result0 == [ score |-> 0, is_toxic |-> FALSE, categories |-> <<>>,
                     matched |-> <<>>, skipped_context |-> FALSE ]
    IN  IF whitelisted THEN [ result0 EXCEPT !.skipped_context = TRUE ]
        ELSE
          LET r1 == CheckPatternSets(ToxicChecks, count, result0)
              r2 == _check_defamation(count["defamation"], r1, linguistic_result)
              r3 == IF count["hate_speech"] > 0
                    THEN [ r2 EXCEPT
                             !.categories =
                                 IF \E i \in 1..Len(@) : @[i] = "hate_speech" THEN @
                                 ELSE Append(@, "hate_speech"),
                             !.score = @ + 6000 ]
                    ELSE r2
              spam_count == count["spam"]
              r4 == IF spam_count >= 2
                    THEN [ r3 EXCEPT !.categories = Append(@, "spam"),
                                     !.score = @ + 3000 ]
                    ELSE r3
              score == Min2(One, Round3(r4.score))
          IN  [ r4 EXCEPT !.score = score, !.is_toxic = (score >= 3000) ]

\* hits: the categories with a term in the text ("spam": two indicators)
ToxicityChecker_check(whitelisted, hits, linguistic_result) ==
    ToxicityChecker_scan(whitelisted,
                         [ c \in ToxicSetCategories \cup ToxicExtras |->
                             IF c \notin hits THEN 0 ELSE IF c = "spam" THEN 2 ELSE 1 ],
                         linguistic_result)

\* ------------------------------------------------------------------------
\* FuzzyMatcher
\* ------------------------------------------------------------------------
high_severity_phrases ==
    { "guaranteed returns", "guaranteed profit", "double your money",
      "get rich quick", "never lose money" }

_get_severity(phrase) == IF phrase \in high_severity_phrases THEN "high" ELSE "medium"

RECURSIVE FuzzyScan_NoRatio(_, _, _, _)
\* the scan without the length-ratio filter
FuzzyScan_NoRatio(ngrams, threshold, seen, matches) ==
    IF ngrams = <<>> THEN matches
    ELSE
      LET g == Head(ngrams)
          rest == Tail(ngrams)
      IN  IF g.len < 10 THEN FuzzyScan_NoRatio(rest, threshold, seen, matches)
          ELSE IF g.similarity < threshold
               THEN FuzzyScan_NoRatio(rest, threshold, seen, matches)
          ELSE IF g.matched \in seen THEN FuzzyScan_NoRatio(rest, threshold, seen, matches)
          ELSE FuzzyScan_NoRatio(rest, threshold, seen \cup { g.matched },
                                 Append(matches, [ input |-> g.input, matched |-> g.matched,
                                                   similarity |-> g.similarity,
                                                   severity |-> _get_severity(g.matched) ]))

\* an n-gram of the text with what process.extractOne finds for it:
\* [input, len, matched, matched_len, similarity]
RECURSIVE FuzzyScan(_, _, _, _)
FuzzyScan(ngrams, threshold, seen, matches) ==
    IF ngrams = <<>> THEN matches
    ELSE
      LET g == Head(ngrams)
          rest == Tail(ngrams)
      IN  IF g.len < 10 THEN FuzzyScan(rest, threshold, seen, matches)
          ELSE IF g.similarity < threshold THEN FuzzyScan(rest, threshold, seen, matches)
          ELSE IF 10 * g.len < 7 * g.matched_len \/ 10 * g.len > 15 * g.matched_len
               THEN FuzzyScan(rest, threshold, seen, matches)
          ELSE IF g.matched \in seen THEN FuzzyScan(rest, threshold, seen, matches)
          ELSE FuzzyScan(rest, threshold, seen \cup { g.matched },
                         Append(matches, [ input |-> g.input, matched |-> g.matched,
                                           similarity |-> g.similarity,
                                           severity |-> _get_severity(g.matched) ]))

RECURSIVE MaxSimilarity(_)
MaxSimilarity(ms) ==
    IF ms = <<>> THEN 0 ELSE Max2(Head(ms).similarity, MaxSimilarity(Tail(ms)))

FuzzyMatcher_check(whitelisted, ngrams, threshold) ==
    IF whitelisted
    THEN [ score |-> 0, matches |-> <<>>, has_fuzzy_match |-> FALSE,
           skipped_context |-> TRUE ]
    ELSE LET matches == FuzzyScan(ngrams, threshold, {}, <<>>)
         IN  IF matches = <<>>
             THEN [ score |-> 0, matches |-> <<>>, has_fuzzy_match |-> FALSE,
                    skipped_context |-> FALSE ]
             ELSE [ score |-> Round3(MaxSimilarity(matches)), matches |-> matches,
                    has_fuzzy_match |-> TRUE, skipped_context |-> FALSE ]

\* ------------------------------------------------------------------------
\* SemanticChecker
\* ------------------------------------------------------------------------
\* the scam templates (the model keeps one of each labelled severity)
ScamTemplates ==
    << [ text |-> "guaranteed returns every month", severity |-> "high" ],
       [ text |-> "last chance to join", severity |-> "medium" ] >>

\* num/den, a value in units of 1/10000, rounded to 3 decimals
RoundRat3(num, den) ==
    LET q == num \div (den * 10)
        r == num % (den * 10)
    IN  IF 2 * r > den * 10 \/ (2 * r = den * 10 /\ q % 2 = 1)
        THEN (q + 1) * 10 ELSE q * 10

\* the score with the part below the threshold scaled linearly
SemanticScore_Linear(m, t) ==
    IF m >= t
    THEN 5000 + RoundRat3((m - t) * 5000, One - t)
    ELSE RoundRat3(m * 5000, t)

\* the score of check from the best similarity m and the threshold t
SemanticScore(m, t) ==
    IF m >= t
    THEN 5000 + RoundRat3((m - t) * 5000, One - t)
    ELSE RoundRat3((m \div 10) * (m \div 10) * 50, (t \div 100) * (t \div 100))

RECURSIVE InsertDesc(_, _)
\* stable insertion into a list sorted by descending similarity
InsertDesc(sorted, x) ==
    IF sorted = <<>> THEN <<x>>
    ELSE IF Head(sorted).similarity >= x.similarity
         THEN <<Head(sorted)>> \o InsertDesc(Tail(sorted), x)
         ELSE <<x>> \o sorted

RECURSIVE SortDesc(_)
SortDesc(ms) ==
    IF ms = <<>> THEN <<>>
    ELSE InsertDesc(SortDesc(SubSeq(ms, 1, Len(ms) - 1)), ms[Len(ms)])

RECURSIVE SemanticMatches(_, _, _)
SemanticMatches(sims, threshold, i) ==
    IF i > Len(sims) THEN <<>>
    ELSE (IF sims[i] >= threshold
          THEN << [ template |-> ScamTemplates[i].text, similarity |-> Round3(sims[i]),
                    severity |-> ScamTemplates[i].severity ] >>
          ELSE <<>>) \o SemanticMatches(sims, threshold, i + 1)

RECURSIVE SeqMax(_)
SeqMax(s) == IF s = <<>> THEN 0 ELSE Max2(Head(s), SeqMax(Tail(s)))

\* check without the handler around the model: a failure is scored as a
\* text that resembles no template
SemanticChecker_check_NoHandler(enable, whitelisted, model_ok, sims, threshold) ==
    IF ~enable THEN [ score |-> 0, matches |-> <<>>, enabled |-> FALSE,
                      has_semantic_match |-> FALSE ]
    ELSE IF whitelisted
    THEN [ score |-> 0, matches |-> <<>>, enabled |-> TRUE,
           has_semantic_match |-> FALSE ]
    ELSE LET matches == SortDesc(SemanticMatches(sims, threshold, 1))
             max_similarity == SeqMax(sims)
         IN  [ score |-> SemanticScore(max_similarity, threshold),
               matches |-> Prefix(matches, 5), enabled |-> TRUE,
               has_semantic_match |-> Len(matches) > 0 ]

\* model_ok: loading the embedding model and encoding the text succeed
SemanticChecker_check(enable, whitelisted, model_ok, sims, threshold) ==
    IF ~enable THEN [ score |-> 0, matches |-> <<>>, enabled |-> FALSE,
                      has_semantic_match |-> FALSE ]
    ELSE IF whitelisted
    THEN [ score |-> 0, matches |-> <<>>, enabled |-> TRUE,
           has_semantic_match |-> FALSE ]
    ELSE IF ~model_ok
    THEN [ score |-> 0, matches |-> <<>>, enabled |-> FALSE,
           has_semantic_match |-> FALSE ]
    ELSE LET matches == SortDesc(SemanticMatches(sims, threshold, 1))
             max_similarity == SeqMax(sims)
         IN  [ score |-> SemanticScore(max_similarity, threshold),
               matches |-> Prefix(matches, 5), enabled |-> TRUE,
               has_semantic_match |-> Len(matches) > 0 ]

\* ------------------------------------------------------------------------
\* LinguisticAnalyzer
\* ------------------------------------------------------------------------
\* an entity is [label, kind]; kind tells whether its text is an ordinary
\* name, a negative-topic term or one of the noise tokens dm / pm / admin.
\* a sentence of the parsed doc is [long, finance, topic]: at least 6 tokens,
\* contains a finance term, and its entities with a topic-defining label.
_get_empty_result ==
    [ is_available |-> FALSE, entities |-> <<>>, sents |-> <<>>, has_doc |-> FALSE ]

LinguisticAnalyzer_analyze(loaded, parse) ==
    IF ~loaded THEN _get_empty_result
    ELSE [ is_available |-> TRUE, entities |-> parse.entities,
           sents |-> parse.sents, has_doc |-> TRUE ]

\* ------------------------------------------------------------------------
\* DomainChecker
\* ------------------------------------------------------------------------
\* the finance terms of the vocabulary, by the sets the checker keeps them in
FinanceTerms ==
    { [ term |-> "budget", ambiguous |-> TRUE, strong |-> FALSE, high_priority |-> FALSE ],
      [ term |-> "loan", ambiguous |-> FALSE, strong |-> FALSE, high_priority |-> FALSE ],
      [ term |-> "sip", ambiguous |-> FALSE, strong |-> FALSE, high_priority |-> TRUE ],
      [ term |-> "nifty", ambiguous |-> FALSE, strong |-> TRUE, high_priority |-> FALSE ] }

TopicLabels == { "PERSON", "ORG", "GPE", "NORP", "EVENT", "FAC", "LAW", "PRODUCT" }

RECURSIVE EntityBoost(_)
EntityBoost(ents) ==
    IF ents = <<>> THEN 0
    ELSE LET e == Head(ents)
         IN  (IF e.kind \in { "negative", "noise" } THEN 0
              ELSE IF e.label = "ORG" THEN 500
              ELSE IF e.label = "MONEY" THEN 1000
              ELSE 0) + EntityBoost(Tail(ents))

\* every entity taken as evidence
FoundEntities_Any(ents) == ents

FoundEntities(ents) ==
    SelectSeq(ents, LAMBDA e : e.kind \notin { "negative", "noise" }
                               /\ e.label \in { "ORG", "MONEY" })

\* the sentences that earn the coherence penalty
DriftSentences(sents) ==
    SelectSeq(sents, LAMBDA sn :
        /\ sn.long
        /\ ~sn.finance
        /\ sn.topic # <<>>
        /\ \A i \in 1..Len(sn.topic) : sn.topic[i].kind # "negative")

\* the verdict with the 0.25 floor left out
FinanceVerdict_NoFloor(base_score, negative_matches, strong_signal_found, has_entities) ==
    [ is_finance |-> IF negative_matches > 0 THEN base_score >= 1500
                     ELSE base_score >= 500,
      base_score |-> base_score ]

\* "Override for strong signals": strict mode once any negative match was
\* made, else the normal bar with the floor for a strong term, or for weak
\* matches with entity evidence
FinanceVerdict(base_score, negative_matches, strong_signal_found, has_entities) ==
    IF negative_matches > 0
    THEN [ is_finance |-> base_score >= 1500, base_score |-> base_score ]
    ELSE IF strong_signal_found \/ (base_score >= 1000 /\ has_entities)
    THEN [ is_finance |-> TRUE, base_score |-> Max2(base_score, 2500) ]
    ELSE [ is_finance |-> base_score >= 500, base_score |-> base_score ]

\* text: [blank, words (words longer than 2 characters), matched (finance
\* terms found), negatives (number of distinct negative terms found)]
DomainChecker_check(text, linguistic_result) ==
    LET zero == [ score |-> 0, is_finance |-> FALSE, matched_terms |-> {},
                  negative_terms_found |-> 0, reason |-> "" ]
    IN  IF text.blank THEN zero
        ELSE IF text.words = 0 THEN zero
        ELSE
          LET matched == text.matched
              high_priority_matches == Cardinality({ m \in matched : m.high_priority })
              strong_signal_found == \E m \in matched : m.strong
              b0 == (Cardinality(matched) * One) \div text.words
              b1 == IF high_priority_matches > 0
                    THEN Min2(One, b0 + 1000 * high_priority_matches) ELSE b0
              available == Get(linguistic_result, "is_available", FALSE)
              ents == IF available THEN Get(linguistic_result, "entities", <<>>) ELSE <<>>
              entity_boost == EntityBoost(ents)
              found_entities == FoundEntities(ents)
              b2 == b1 + Min2(2000, entity_boost) + Min2(2000, entity_boost)
              b3 == IF text.negatives > 0
                    THEN Max2(0, b2 - 1500 * text.negatives) ELSE b2
              drift == IF Get(linguistic_result, "has_doc", FALSE)
                       THEN DriftSentences(Get(linguistic_result, "sents", <<>>))
                       ELSE <<>>
              coherence_penalty == 1500 * Len(drift)
              b4 == IF coherence_penalty > 0 THEN Max2(0, b3 - coherence_penalty) ELSE b3
              negative_matches == text.negatives + Len(drift)
          IN  IF /\ matched # {}
                 /\ \A m \in matched : m.ambiguous
                 /\ ~strong_signal_found
                 /\ found_entities = <<>>
              THEN [ score |-> 500, is_finance |-> FALSE,
                     matched_terms |-> { m.term : m \in matched },
                     negative_terms_found |-> negative_matches,
                     reason |-> "ambiguous_only" ]
              ELSE
                LET v == FinanceVerdict(b4, negative_matches, strong_signal_found,
                                        found_entities # <<>>)
                IN  [ score |-> Round3(v.base_score), is_finance |-> v.is_finance,
                      matched_terms |-> { m.term : m \in matched },
                      negative_terms_found |-> negative_matches,
                      reason |-> "" ]

\* ------------------------------------------------------------------------
\* ContentAnalyzer
\* ------------------------------------------------------------------------
WEIGHT_TOPIC == 3
WEIGHT_SUBSTANCE == 4
WEIGHT_DISCOURSE == 2
WEIGHT_LINGUISTIC == 1
PASS_THRESHOLD == 5000
FLAG_THRESHOLD == 3500

Clamp(lo, x, hi) == Max2(lo, Min2(hi, x))

\* _score_topic_relevance, in units of 1/100000; sims is "None" when the
\* embedding model is missing, else [max_finance, avg_top5_finance, max_negative]
_score_topic_relevance(model_ok, sims) ==
    IF ~model_ok THEN 0
    ELSE IF sims.max_negative > sims.max_finance THEN sims.avg_top5_finance * 3
    ELSE IF sims.max_negative > sims.avg_top5_finance THEN sims.avg_top5_finance * 6
    ELSE sims.avg_top5_finance * 10

\* _score_substance_quality, in units of 1/100000
_score_substance_quality(word_count, high_count, low_count) ==
    LET length_score == Min2(One, (word_count * One) \div 30)
        p0 == 5000
        p1 == IF high_count > 0 THEN p0 + 1500 * Min2(high_count, 3) ELSE p0
        p2 == IF low_count > 0 THEN p1 - 2000 * Min2(low_count, 3) ELSE p1
    IN  Clamp(0, length_score * 4 + p2 * 6, 10 * One)

\* _classify_discourse_type: the modifier of the dominant discourse type
DiscourseModifier(dtype) ==
    IF dtype = "analysis" THEN 9000
    ELSE IF dtype = "education" THEN 8500
    ELSE IF dtype = "news" THEN 8000
    ELSE IF dtype = "question" THEN 7000
    ELSE IF dtype = "gossip" THEN 1000
    ELSE 5000

_score_linguistic_quality(f) ==
    LET s0 == 5000
        s1 == IF f.terminal THEN s0 + 1500 ELSE s0
        s2 == IF f.capital THEN s1 + 1000 ELSE s1
        s3 == IF f.word_count >= 5 THEN s2 + 1500 ELSE s2
        s4 == IF f.shouting THEN s3 - 3000 ELSE s3
        s5 == IF f.punct_heavy THEN s4 - 2000 ELSE s4
    IN  Clamp(0, s5, One)

\* a value in units of 1/1000000 rounded to 3 decimals, in units of 1/10000
Round3Micro(x) ==
    LET q == x \div 1000
        r == x % 1000
    IN  IF r > 500 \/ (r = 500 /\ q % 2 = 1) THEN (q + 1) * 10 ELSE q * 10

\* the unrounded unified score, in units of 1/1000000
UnifiedMicro(f) ==
    LET topic_score == _score_topic_relevance(f.model_ok, f.sims)
        substance_score == _score_substance_quality(f.word_count, f.high_count, f.low_count)
        discourse_modifier == DiscourseModifier(f.discourse)
        linguistic_score == _score_linguistic_quality(f)
    IN  Clamp(0, topic_score * WEIGHT_TOPIC + substance_score * WEIGHT_SUBSTANCE
                   + discourse_modifier * WEIGHT_DISCOURSE * 10
                   + linguistic_score * WEIGHT_LINGUISTIC * 10,
              100 * One)

ContentAnalyzer_analyze(f) ==
    LET unified_score == UnifiedMicro(f)
        decision == IF unified_score >= PASS_THRESHOLD * 100 THEN "PASS"
                    ELSE IF unified_score >= FLAG_THRESHOLD * 100 THEN "FLAG"
                    ELSE "BLOCK"
    IN  [ unified_score |-> Round3Micro(unified_score), decision |-> decision,
          is_substantive_finance |-> unified_score >= PASS_THRESHOLD * 100 ]

\* ------------------------------------------------------------------------
\* State
\* ------------------------------------------------------------------------
VARIABLES
    config,              \* ContentModerator.config
    _content_analyzer,   \* lazily loaded components of the moderator:
    _fuzzy_matcher,      \*   FALSE is None, TRUE is a loaded instance
    _semantic_checker,
    _nlp,                \* LinguisticAnalyzer: "unloaded", "loaded", "disabled"
    pc,                  \* position of the current moderate call
    calls,               \* moderate calls made on this moderator
    content,             \* the text submitted to the current moderate call
    rule_input,          \* what RuleEngine.check found in the text: [tiers, hits]
    analysis_input,      \* what step 2.5 met: [outcome, model_ok]
    semantic_input,      \* what step 5 met: [outcome]
    whitelisted,         \* the text contains a whitelist_contexts phrase
    events,              \* pattern matches met so far; a collaborator failure weighs two
    invoked,             \* components the current call has invoked
    raised,              \* a step raised into the handler of moderate
    linguistic_result,
    vocab_result,        \* what DomainChecker.check returned
    domain_result,       \* the same dict after the content-analysis override
    content_analysis,
    scam_result,
    fuzzy_result,
    semantic_result,
    toxicity_result,
    verdict,             \* the dict moderate returns
    engine,              \* locals of DecisionEngine.decide: high_sev_count, fused
    handle,              \* process-wide singletons: instance id, 0 is None
    built,               \* how many times each singleton was constructed
    warm,                \* startup_event: "pending", "ok" or "failed"
    tpc,                 \* position of each thread in its get_* call
    tgot,                \* the instance each get_* call returned to each thread
    world,               \* what a behaviour fixes at its start: the texts submitted
                         \*   and the collaborators' responses to each of them
    returned             \* what the calls made so far returned

pipeline_vars ==
    << config, _content_analyzer, _fuzzy_matcher, _semantic_checker, _nlp, pc, calls, content,
       rule_input, analysis_input, semantic_input,
       whitelisted, events, invoked, raised, linguistic_result, vocab_result,
       domain_result, content_analysis, scam_result, fuzzy_result, semantic_result,
       toxicity_result, verdict, engine >>

lazy_vars == << handle, built, warm, tpc, tgot >>

driver_vars == << world, returned >>

vars == << pipeline_vars, lazy_vars, driver_vars >>

\* ------------------------------------------------------------------------
\* Inputs
\* ------------------------------------------------------------------------
\* runs of whitespace of up to MaxLen characters
Blanks == UNION { [ 1..n -> { " " } ] : n \in 0..MaxLen }

\* a text with a word in it; what the scanners find in it is chosen step by step
Texts == { << "x" >> }

Contents == Blanks \cup Texts

RECURSIVE lstrip(_)
lstrip(c) == IF c # <<>> /\ Head(c) = " " THEN lstrip(Tail(c)) ELSE c

RECURSIVE rstrip(_)
rstrip(c) == IF c # <<>> /\ c[Len(c)] = " " THEN rstrip(SubSeq(c, 1, Len(c) - 1)) ELSE c

strip(c) == rstrip(lstrip(c))

\* the emptiness test without the strip
IsBlank_NoStrip(c) == c = <<>>

\* "not content or not content.strip()"
IsBlank(c) == c = <<>> \/ strip(c) = <<>>

RECURSIVE AtMost(_, _)
\* the subsets of S with at most k elements
AtMost(S, k) ==
    IF k <= 0 THEN { {} }
    ELSE LET smaller == AtMost(S, k - 1)
         IN  smaller \cup { T \cup { x } : T \in smaller, x \in S }

Entities ==
    { [ label |-> "PERSON", kind |-> "plain" ],
      [ label |-> "ORG", kind |-> "plain" ],
      [ label |-> "MONEY", kind |-> "plain" ] }

\* what spaCy makes of a text with the entities `ents`: one sentence that
\* holds them all
Parse(ents, long, finance) ==
    [ entities |-> ents,
      sents |-> << [ long |-> long, finance |-> finance,
                     topic |-> SelectSeq(ents, LAMBDA e : e.label \in TopicLabels) ] >> ]

\* what the content analyzer sees in a text
AnalysisTexts ==
    { [ model_ok |-> TRUE,
        sims |-> [ max_finance |-> 8000, avg_top5_finance |-> 7000, max_negative |-> 2000 ],
        word_count |-> 30, high_count |-> 3, low_count |-> 0, discourse |-> "analysis",
        terminal |-> TRUE, capital |-> TRUE, shouting |-> FALSE, punct_heavy |-> FALSE ],
      [ model_ok |-> TRUE,
        sims |-> [ max_finance |-> 4000, avg_top5_finance |-> 3000, max_negative |-> 1000 ],
        word_count |-> 15, high_count |-> 0, low_count |-> 0, discourse |-> "neutral",
        terminal |-> TRUE, capital |-> TRUE, shouting |-> FALSE, punct_heavy |-> FALSE ],
      [ model_ok |-> TRUE,
        sims |-> [ max_finance |-> 1000, avg_top5_finance |-> 1000, max_negative |-> 5000 ],
        word_count |-> 3, high_count |-> 0, low_count |-> 3, discourse |-> "gossip",
        terminal |-> FALSE, capital |-> FALSE, shouting |-> TRUE, punct_heavy |-> FALSE ],
      [ model_ok |-> FALSE,
        sims |-> [ max_finance |-> 0, avg_top5_finance |-> 0, max_negative |-> 0 ],
        word_count |-> 30, high_count |-> 3, low_count |-> 0, discourse |-> "analysis",
        terminal |-> TRUE, capital |-> TRUE, shouting |-> FALSE, punct_heavy |-> FALSE ] }

\* n-grams of a text (of n words) with their best corpus match
FuzzyNgrams ==
    { [ input |-> "gaurenteed returns", n |-> 2, len |-> 18, matched |-> "guaranteed returns",
        matched_len |-> 18, similarity |-> 8890 ],
      [ input |-> "join my telegrm", n |-> 3, len |-> 15, matched |-> "join my telegram",
        matched_len |-> 16, similarity |-> 9680 ] }

SimilarityGrid == { 0, 3600, 8600 }

NoVerdict == None

SeqsUpTo(S, k) == UNION { [ 1..n -> S ] : n \in 0..k }

Handles == { "spacy", "sentence_transformer", "moderator" }

\* thread 0 is the event loop (startup and /api/warmup), the others are the
\* workers of the thread pool that run moderate_content
Threads == 0..MaxThreads

\* ------------------------------------------------------------------------
\* Initial state: a constructed ContentModerator, nothing loaded
\* ------------------------------------------------------------------------
Constructed ==
    /\ config \in Configs
    /\ _content_analyzer = FALSE
    /\ _fuzzy_matcher = FALSE
    /\ _semantic_checker = FALSE
    /\ _nlp \in { "unloaded", "disabled" }
    /\ pc = "idle"
    /\ calls = 0
    /\ content = <<>>
    /\ rule_input = None
    /\ analysis_input = None
    /\ semantic_input = None
    /\ whitelisted = FALSE
    /\ events = 0
    /\ invoked = {}
    /\ raised = FALSE
    /\ linguistic_result = None
    /\ vocab_result = None
    /\ domain_result = None
    /\ content_analysis = None
    /\ scam_result = None
    /\ fuzzy_result = None
    /\ semantic_result = None
    /\ toxicity_result = None
    /\ verdict = NoVerdict
    /\ engine = [ high_sev_count |-> 0, fused |-> FALSE ]
    /\ handle = [ h \in Handles |-> 0 ]
    /\ built = [ h \in Handles |-> 0 ]
    /\ warm = "pending"
    /\ tpc = [ t \in Threads |-> [ at |-> "idle", n |-> 0, h |-> "moderator" ] ]
    /\ tgot = [ t \in Threads |-> [ h \in Handles |-> 0 ] ]

Init ==
    /\ Constructed
    /\ world = None
    /\ returned = None

\* ------------------------------------------------------------------------
\* ContentModerator.moderate, step by step
\* ------------------------------------------------------------------------
EmptyContentVerdict ==
    [ decision |-> "FLAG", confidence |-> One, risk_score |-> 0,
      is_finance_related |-> FALSE, flags |-> << <<"empty_content">> >>,
      explanation |-> [ head |-> "Content is empty", action |-> "", reasons |-> <<>> ] ]

\* the handler of moderate returning the pass-through default
SystemErrorVerdict_Pass ==
    [ decision |-> "PASS", confidence |-> One, risk_score |-> 0,
      is_finance_related |-> FALSE, flags |-> <<>>,
      explanation |-> [ head |-> "", action |-> "", reasons |-> <<>> ] ]

SystemErrorVerdict ==
    [ decision |-> "FLAG", confidence |-> 0, risk_score |-> One,
      is_finance_related |-> FALSE, flags |-> << <<"system_error">> >>,
      explanation |-> [ head |-> "System encountered an error during processing.",
                        action |-> "", reasons |-> <<>> ] ]

ResetCall ==
    /\ invoked' = {}
    /\ raised' = FALSE
    /\ rule_input' = None
    /\ analysis_input' = None
    /\ semantic_input' = None
    /\ linguistic_result' = None
    /\ vocab_result' = None
    /\ domain_result' = None
    /\ content_analysis' = None
    /\ scam_result' = None
    /\ fuzzy_result' = None
    /\ semantic_result' = None
    /\ toxicity_result' = None
    /\ engine' = [ high_sev_count |-> 0, fused |-> FALSE ]

\* entry of moderate: the empty-content check
Moderate(c, w) ==
    /\ pc \in { "idle", "done" }
    /\ calls < MaxCalls
    /\ calls' = calls + 1
    /\ ResetCall
    /\ content' = c
    /\ IF IsBlank(c)
       THEN /\ w = FALSE
            /\ whitelisted' = FALSE
            /\ events' = events
            /\ verdict' = EmptyContentVerdict
            /\ pc' = "done"
       ELSE /\ w => events < MaxEvents
            /\ whitelisted' = w
            /\ events' = IF w THEN events + 1 ELSE events
            /\ verdict' = NoVerdict
            /\ pc' = "preprocess"
    /\ UNCHANGED << config, _content_analyzer, _fuzzy_matcher, _semantic_checker, _nlp >>
    /\ UNCHANGED << lazy_vars, driver_vars >>

\* Step 1: self._preprocessor.preprocess(content)
Preprocess ==
    /\ pc = "preprocess"
    /\ invoked' = invoked \cup { "preprocessor" }
    /\ pc' = "linguistic"
    /\ UNCHANGED << config, calls, _content_analyzer, _fuzzy_matcher, _semantic_checker, _nlp,
                    content, rule_input, analysis_input, semantic_input,
                    whitelisted, events, raised, linguistic_result,
                    vocab_result, domain_result, content_analysis, scam_result,
                    fuzzy_result, semantic_result, toxicity_result, verdict, engine >>
    /\ UNCHANGED << lazy_vars, driver_vars >>

\* the steps that run directly under the try of moderate
RaisingSteps == { "preprocess", "linguistic", "domain", "rule", "toxicity", "decide" }

StepComponent(step) ==
    IF step = "preprocess" THEN "preprocessor"
    ELSE IF step = "linguistic" THEN "linguistic_analyzer"
    ELSE IF step = "domain" THEN "domain_checker"
    ELSE IF step = "rule" THEN "rule_engine"
    ELSE IF step = "toxicity" THEN "toxicity_checker"
    ELSE "decision_engine"

\* "except Exception": the step at pc raised
Except ==
    /\ pc \in RaisingSteps
    /\ events + 1 < MaxEvents
    /\ events' = events + 2
    /\ invoked' = invoked \cup { StepComponent(pc) }
    /\ raised' = TRUE
    /\ verdict' = SystemErrorVerdict
    /\ pc' = "done"
    /\ UNCHANGED << config, calls, _content_analyzer, _fuzzy_matcher, _semantic_checker, _nlp,
                    content, rule_input, analysis_input, semantic_input,
                    whitelisted, linguistic_result,
                    vocab_result, domain_result, content_analysis, scam_result,
                    fuzzy_result, semantic_result, toxicity_result, engine >>
    /\ UNCHANGED << lazy_vars, driver_vars >>

\* Step 1.5: self._linguistic_analyzer.analyze(content)
Linguistic(outcome, ents, long, finance) ==
    /\ pc = "linguistic"
    /\ Len(ents) <= MaxEvents - events
    /\ (outcome # "ok" /\ _nlp # "disabled") => events + 1 < MaxEvents
    /\ IF _nlp = "disabled"
       THEN /\ outcome = "load_fails"
            /\ _nlp' = _nlp
       ELSE _nlp' = IF _nlp = "unloaded" /\ outcome = "load_fails"
                    THEN "disabled" ELSE IF outcome = "load_fails" THEN _nlp ELSE "loaded"
    /\ _nlp = "loaded" => outcome # "load_fails"
    /\ IF outcome = "ok"
       THEN /\ ents = <<>> => (~long /\ ~finance)
            /\ linguistic_result' = LinguisticAnalyzer_analyze(TRUE, Parse(ents, long, finance))
            /\ events' = events + Len(ents)
       ELSE /\ ents = <<>> /\ ~long /\ ~finance
            /\ linguistic_result' = LinguisticAnalyzer_analyze(FALSE, Parse(ents, long, finance))
            /\ events' = IF _nlp = "disabled" THEN events ELSE events + 2
    /\ invoked' = invoked \cup { "linguistic_analyzer" }
    /\ pc' = "domain"
    /\ UNCHANGED << config, calls, _content_analyzer, _fuzzy_matcher, _semantic_checker,
                    content, rule_input, analysis_input, semantic_input, whitelisted, raised,
                    vocab_result, domain_result, content_analysis, scam_result,
                    fuzzy_result, semantic_result, toxicity_result, verdict, engine >>
    /\ UNCHANGED << lazy_vars, driver_vars >>

DomainWordCounts == { 0, 10 }

\* Step 2: self._domain_checker.check(cleaned_text, linguistic_result)
Domain(words, matched, negatives) ==
    /\ pc = "domain"
    /\ Cardinality(matched) + negatives <= MaxEvents - events
    /\ words = 0 => (matched = {} /\ negatives = 0)
    /\ matched = {} =>
          \A i \in 1..Len(linguistic_result.sents) : ~linguistic_result.sents[i].finance
    /\ LET r == DomainChecker_check([ blank |-> FALSE, words |-> words,
                                      matched |-> matched, negatives |-> negatives ],
                                    linguistic_result)
       IN  /\ vocab_result' = r
           /\ domain_result' = r
    /\ events' = events + Cardinality(matched) + negatives
    /\ invoked' = invoked \cup { "domain_checker" }
    /\ pc' = "analysis"
    /\ UNCHANGED << config, calls, _content_analyzer, _fuzzy_matcher, _semantic_checker, _nlp,
                    content, rule_input, analysis_input, semantic_input,
                    whitelisted, raised, linguistic_result,
                    content_analysis, scam_result,
                    fuzzy_result, semantic_result, toxicity_result, verdict, engine >>
    /\ UNCHANGED << lazy_vars, driver_vars >>

\* the decision matrix without the veto of a weak analysis
ApplyContentAnalysis_NoVeto(domain, analysis) ==
    LET vocab_score == Get(domain, "score", 0)
        analysis_score == Get(analysis, "unified_score", 0)
    IN  IF analysis_score >= 5000
        THEN [ domain EXCEPT !.score = Max2(vocab_score, analysis_score),
                             !.is_finance = TRUE ]
        ELSE IF vocab_score >= 2000
        THEN [ domain EXCEPT !.score = (vocab_score + analysis_score) \div 2,
                             !.is_finance = TRUE ]
        ELSE [ domain EXCEPT !.score = 0, !.is_finance = FALSE ]

\* the decision matrix of step 2.5
ApplyContentAnalysis(domain, analysis) ==
    LET vocab_score == Get(domain, "score", 0)
        analysis_score == Get(analysis, "unified_score", 0)
    IN  IF analysis_score >= 5000
        THEN [ domain EXCEPT !.score = Max2(vocab_score, analysis_score),
                             !.is_finance = TRUE ]
        ELSE IF analysis_score < 3500
        THEN [ domain EXCEPT !.score = 0, !.is_finance = FALSE ]
        ELSE IF vocab_score >= 2000
        THEN [ domain EXCEPT !.score = (vocab_score + analysis_score) \div 2,
                             !.is_finance = TRUE ]
        ELSE [ domain EXCEPT !.score = 0, !.is_finance = FALSE ]

DefaultContentAnalysis ==
    [ unified_score |-> 0, decision |-> "", is_substantive_finance |-> FALSE ]

\* Step 2.5: content analysis and its override of the domain result
Analysis(outcome, f) ==
    /\ pc = "analysis"
    /\ _content_analyzer => outcome # "load_fails"
    /\ outcome # "ok" => events + 1 < MaxEvents
    /\ events' = IF outcome = "ok" THEN events ELSE events + 2
    /\ IF outcome = "load_fails"
       THEN /\ _content_analyzer' = FALSE
            /\ invoked' = invoked
            /\ content_analysis' = DefaultContentAnalysis
            /\ domain_result' = domain_result
       ELSE /\ _content_analyzer' = TRUE
            /\ invoked' = invoked \cup { "content_analyzer" }
            /\ IF outcome = "raises"
               THEN /\ content_analysis' = DefaultContentAnalysis
                    /\ domain_result' = domain_result
               ELSE LET analysis == ContentAnalyzer_analyze(f)
                    IN  /\ content_analysis' = analysis
                        /\ domain_result' = ApplyContentAnalysis(domain_result, analysis)
    /\ analysis_input' = IF outcome = "ok"
                         THEN [ outcome |-> outcome, model_ok |-> f.model_ok ]
                         ELSE [ outcome |-> outcome ]
    /\ pc' = "rule"
    /\ UNCHANGED << config, calls, _fuzzy_matcher, _semantic_checker, _nlp,
                    content, rule_input, semantic_input, whitelisted, raised, linguistic_result,
                    vocab_result, scam_result,
                    fuzzy_result, semantic_result, toxicity_result, verdict, engine >>
    /\ UNCHANGED << lazy_vars, driver_vars >>

\* Step 3: self._rule_engine.check(cleaned_text)
Rule(tiers, hits) ==
    /\ pc = "rule"
    /\ ("whitelist" \in tiers) = whitelisted
    /\ Cardinality(tiers \ { "whitelist" }) + Cardinality(hits) <= MaxEvents - events
    /\ rule_input' = [ tiers |-> tiers, hits |-> hits ]
    /\ events' = events + Cardinality(tiers \ { "whitelist" }) + Cardinality(hits)
    /\ LET r == RuleEngine_check(tiers, hits)
       IN  /\ scam_result' = r
           /\ invoked' = invoked \cup
                 (IF r.scanned THEN { "rule_engine", "rule_scan" } ELSE { "rule_engine" })
    /\ pc' = "fuzzy"
    /\ UNCHANGED << config, calls, _content_analyzer, _fuzzy_matcher, _semantic_checker, _nlp,
                    content, analysis_input, semantic_input, whitelisted, raised, linguistic_result,
                    vocab_result, domain_result, content_analysis,
                    fuzzy_result, semantic_result, toxicity_result, verdict, engine >>
    /\ UNCHANGED << lazy_vars, driver_vars >>

\* Step 4: fuzzy matching, when enabled and the matcher could be loaded
Fuzzy(outcome, ngrams) ==
    /\ pc = "fuzzy"
    /\ Len(ngrams) <= MaxEvents - events
    /\ outcome # "ok" => events + 1 < MaxEvents
    /\ IF ~config.enable_fuzzy
       THEN /\ outcome = "ok" /\ ngrams = <<>>
            /\ fuzzy_result' = EmptyMatchResult
            /\ UNCHANGED << _fuzzy_matcher, invoked, events >>
       ELSE /\ _fuzzy_matcher => outcome # "load_fails"
            /\ IF outcome = "load_fails"
               THEN /\ ngrams = <<>>
                    /\ fuzzy_result' = EmptyMatchResult
                    /\ events' = events + 2
                    /\ UNCHANGED << _fuzzy_matcher, invoked >>
               ELSE /\ _fuzzy_matcher' = TRUE
                    /\ invoked' = invoked \cup { "fuzzy_matcher" }
                    /\ IF outcome = "raises"
                       THEN /\ ngrams = <<>>
                            /\ fuzzy_result' = EmptyMatchResult
                            /\ events' = events + 2
                       ELSE /\ fuzzy_result' =
                                  FuzzyMatcher_check(whitelisted, ngrams,
                                                     config.fuzzy_threshold)
                            /\ events' = events + Len(ngrams)
    /\ pc' = "semantic"
    /\ UNCHANGED << config, calls, _content_analyzer, _semantic_checker, _nlp,
                    content, rule_input, analysis_input, semantic_input,
                    whitelisted, raised, linguistic_result,
                    vocab_result, domain_result, content_analysis, scam_result,
                    semantic_result, toxicity_result, verdict, engine >>
    /\ UNCHANGED << lazy_vars, driver_vars >>

NonZero(sims) == Cardinality({ i \in 1..Len(sims) : sims[i] # 0 })

NoSimilarity == [ i \in 1..Len(ScamTemplates) |-> 0 ]

\* Step 5: semantic similarity, when the checker exists
Semantic(outcome, sims) ==
    /\ pc = "semantic"
    /\ NonZero(sims) <= MaxEvents - events
    /\ outcome # "ok" => events + 1 < MaxEvents
    /\ IF ~config.enable_semantic
       THEN /\ outcome = "ok" /\ sims = NoSimilarity
            /\ semantic_result' = EmptyMatchResult
            /\ UNCHANGED << _semantic_checker, invoked, events >>
       ELSE /\ _semantic_checker => outcome # "load_fails"
            /\ IF outcome = "load_fails"
               THEN /\ sims = NoSimilarity
                    /\ semantic_result' = EmptyMatchResult
                    /\ events' = events + 2
                    /\ UNCHANGED << _semantic_checker, invoked >>
               ELSE /\ _semantic_checker' = TRUE
                    /\ invoked' = invoked \cup { "semantic_checker" }
                    /\ IF outcome = "raises"
                       THEN /\ sims = NoSimilarity
                            /\ semantic_result' = EmptyMatchResult
                            /\ events' = events + 2
                       ELSE /\ outcome = "model_fails" => sims = NoSimilarity
                            /\ semantic_result' =
                                  SemanticChecker_check(config.enable_semantic, whitelisted,
                                                        outcome = "ok", sims,
                                                        config.semantic_threshold)
                            /\ events' = events + NonZero(sims)
                                            + (IF outcome = "ok" THEN 0 ELSE 2)
    /\ semantic_input' = [ outcome |-> outcome ]
    /\ pc' = "toxicity"
    /\ UNCHANGED << config, calls, _content_analyzer, _fuzzy_matcher, _nlp,
                    content, rule_input, analysis_input, whitelisted, raised, linguistic_result,
                    vocab_result, domain_result, content_analysis, scam_result,
                    fuzzy_result, toxicity_result, verdict, engine >>
    /\ UNCHANGED << lazy_vars, driver_vars >>

\* Step 6: self._toxicity_checker.check(cleaned_text, linguistic_result)
Toxicity(hits) ==
    /\ pc = "toxicity"
    /\ Cardinality(hits) <= MaxEvents - events
    /\ toxicity_result' = ToxicityChecker_check(whitelisted, hits, linguistic_result)
    /\ events' = events + Cardinality(hits)
    /\ invoked' = invoked \cup { "toxicity_checker" }
    /\ pc' = "decide"
    /\ UNCHANGED << config, calls, _content_analyzer, _fuzzy_matcher, _semantic_checker, _nlp,
                    content, rule_input, analysis_input, semantic_input,
                    whitelisted, raised, linguistic_result,
                    vocab_result, domain_result, content_analysis, scam_result,
                    fuzzy_result, semantic_result, verdict, engine >>
    /\ UNCHANGED << lazy_vars, driver_vars >>

\* Step 7: self._decision_engine.decide(...) and the return of moderate
Decide ==
    /\ pc = "decide"
    /\ LET d == decide(config, domain_result, scam_result, toxicity_result,
                       fuzzy_result, semantic_result)
       IN  /\ verdict' = d.verdict
           /\ engine' = [ high_sev_count |-> d.high_sev_count, fused |-> d.fused ]
    /\ invoked' = invoked \cup { "decision_engine" }
    /\ pc' = "done"
    /\ UNCHANGED << config, calls, _content_analyzer, _fuzzy_matcher, _semantic_checker, _nlp,
                    content, rule_input, analysis_input, semantic_input,
                    whitelisted, events, raised, linguistic_result,
                    vocab_result, domain_result, content_analysis, scam_result,
                    fuzzy_result, semantic_result, toxicity_result >>
    /\ UNCHANGED << lazy_vars, driver_vars >>

\* what is left of the budget of events
Left == MaxEvents - events

Next ==
    \/ \E c \in Contents, w \in BOOLEAN : Moderate(c, w)
    \/ Preprocess
    \/ Except
    \/ /\ pc = "linguistic"
       /\ \E outcome \in { "ok", "load_fails", "parse_fails" },
             ents \in SeqsUpTo(Entities, Left), long \in BOOLEAN, finance \in BOOLEAN :
             Linguistic(outcome, ents, long, finance)
    \/ /\ pc = "domain"
       /\ \E words \in DomainWordCounts, matched \in AtMost(FinanceTerms, Left),
             negatives \in 0..Left :
             Domain(words, matched, negatives)
    \/ \E outcome \in { "ok", "load_fails", "raises" }, f \in AnalysisTexts :
          Analysis(outcome, f)
    \/ /\ pc = "rule"
       /\ \E tiers \in AtMost(ContextTiers, Left + 1), hits \in AtMost(RuleKinds, Left) :
             Rule(tiers, hits)
    \/ /\ pc = "fuzzy"
       /\ \E outcome \in { "ok", "load_fails", "raises" },
             ngrams \in SeqsUpTo(FuzzyNgrams, Left) :
             Fuzzy(outcome, ngrams)
    \/ /\ pc = "semantic"
       /\ \E outcome \in { "ok", "load_fails", "raises", "model_fails" },
             sims \in [ 1..Len(ScamTemplates) -> SimilarityGrid ] :
             Semantic(outcome, sims)
    \/ /\ pc = "toxicity"
       /\ \E hits \in AtMost(ToxicSetCategories \cup ToxicExtras, Left) :
             Toxicity(hits)
    \/ Decide

Spec == Init /\ [][Next]_vars

\* ------------------------------------------------------------------------
\* The process-wide lazy singletons: get_spacy, get_sentence_transformer
\* (shared/model_manager.py) and get_moderator (moderator_api.py)
\* ------------------------------------------------------------------------
\* startup_event: get_spacy(), get_sentence_transformer(), get_moderator() in
\* turn on the event loop before any request is served; the first load that
\* raises is logged and skips the rest ("non-fatal")
StartupOrder == << "spacy", "sentence_transformer", "moderator" >>

Startup(loaded) ==
    /\ warm = "pending"
    /\ handle' = [ h \in Handles |->
                     IF \E i \in 1..loaded : StartupOrder[i] = h THEN 1 ELSE 0 ]
    /\ built' = [ h \in Handles |->
                    IF \E i \in 1..loaded : StartupOrder[i] = h THEN 1 ELSE 0 ]
    /\ warm' = IF loaded = Len(StartupOrder) THEN "ok" ELSE "failed"
    /\ UNCHANGED << tpc, tgot >>
    /\ UNCHANGED << pipeline_vars, driver_vars >>

\* the get_* calls a thread makes, in program order: a worker runs
\* moderate_content (get_moderator, then get_sentence_transformer through
\* SemanticChecker._load_model when semantic checking is enabled); the event
\* loop runs /api/warmup (get_spacy, get_sentence_transformer, get_moderator)
Program(t) ==
    IF t = 0 THEN << "spacy", "sentence_transformer", "moderator" >>
    ELSE IF config.enable_semantic THEN << "moderator", "sentence_transformer" >>
    ELSE << "moderator" >>

\* a thread enters its next get_*()
GetCall(t) ==
    /\ warm # "pending"
    /\ tpc[t].at = "idle"
    /\ tpc[t].n < Len(Program(t))
    /\ tpc' = [ tpc EXCEPT ![t] = [ at |-> "check", n |-> @.n + 1,
                                    h |-> Program(t)[@.n + 1] ] ]
    /\ UNCHANGED << handle, built, warm, tgot >>
    /\ UNCHANGED << pipeline_vars, driver_vars >>

\* "if _x is None:"
GetCheck(t) ==
    /\ tpc[t].at = "check"
    /\ tpc' = [ tpc EXCEPT ![t].at =
                  IF handle[tpc[t].h] = 0 THEN "construct" ELSE "return" ]
    /\ UNCHANGED << handle, built, warm, tgot >>
    /\ UNCHANGED << pipeline_vars, driver_vars >>

\* "_x = X(...)": construct an instance and store it in the global
GetConstruct(t) ==
    /\ tpc[t].at = "construct"
    /\ built' = [ built EXCEPT ![tpc[t].h] = @ + 1 ]
    /\ handle' = [ handle EXCEPT ![tpc[t].h] = built[tpc[t].h] + 1 ]
    /\ tpc' = [ tpc EXCEPT ![t].at = "return" ]
    /\ UNCHANGED << warm, tgot >>
    /\ UNCHANGED << pipeline_vars, driver_vars >>

\* spacy.load raises OSError: get_spacy raises RuntimeError, nothing is
\* stored and /api/warmup gives up
GetConstructFails(t) ==
    /\ tpc[t].at = "construct"
    /\ tpc[t].h = "spacy"
    /\ tpc' = [ tpc EXCEPT ![t] = [ at |-> "idle", n |-> Len(Program(t)), h |-> @.h ] ]
    /\ UNCHANGED << handle, built, warm, tgot >>
    /\ UNCHANGED << pipeline_vars, driver_vars >>

\* "return _x"
GetReturn(t) ==
    /\ tpc[t].at = "return"
    /\ tgot' = [ tgot EXCEPT ![t][tpc[t].h] = handle[tpc[t].h] ]
    /\ tpc' = [ tpc EXCEPT ![t].at = "idle" ]
    /\ UNCHANGED << handle, built, warm >>
    /\ UNCHANGED << pipeline_vars, driver_vars >>

NextLazy ==
    \/ \E loaded \in { 0, 1, Len(StartupOrder) } : Startup(loaded)
    \/ \E t \in Threads : GetCall(t)
    \/ \E t \in Threads : GetCheck(t)
    \/ \E t \in Threads : GetConstruct(t)
    \/ \E t \in Threads : GetConstructFails(t)
    \/ \E t \in Threads : GetReturn(t)

SpecLazy == Init /\ [][NextLazy]_vars

\* ------------------------------------------------------------------------
\* ContentModerator.moderate as a function of the moderator, the text and
\* the collaborators' responses
\* ------------------------------------------------------------------------
\* a text of the world is what it shows to each step:
\*   [content, whitelisted, raises, parse, domain, analysis, rule, fuzzy,
\*    semantic, toxicity]
\* raises names the step of RaisingSteps that raises on this text ("none"
\* when none does); loads tells for each lazily loaded component whether
\* its construction succeeds: [nlp, content_analyzer, fuzzy_matcher,
\* semantic_checker]
StepOrder ==
    << "preprocess", "linguistic", "domain", "analysis", "rule", "fuzzy",
       "semantic", "toxicity", "decide" >>

\* the step is reached before the one that raises
Reached(step, raises) ==
    LET StepIndex(x) == CHOOSE i \in 1..Len(StepOrder) : StepOrder[i] = x
    IN  raises = "none" \/ StepIndex(step) < StepIndex(raises)

\* LinguisticAnalyzer._load_model: the new state of the analyzer
LinguisticAnalyzer_load_model(nlp, load_ok) ==
    IF nlp = "unloaded" THEN (IF load_ok THEN "loaded" ELSE "disabled") ELSE nlp

\* a getter that builds a new instance on every second call
LazyGet_Forgetful(enabled, cur, load_ok) ==
    IF cur THEN FALSE ELSE enabled /\ load_ok

\* _get_fuzzy_matcher, _get_semantic_checker, _get_content_analyzer: the
\* instance returned, which is also the one left in the attribute
LazyGet(enabled, cur, load_ok) ==
    IF ~cur /\ enabled THEN load_ok ELSE cur

LinguisticStep(nlp, load_ok, t) ==
    LET nlp1 == LinguisticAnalyzer_load_model(nlp, load_ok)
    IN  [ nlp |-> nlp1,
          result |-> LinguisticAnalyzer_analyze(
                         nlp1 = "loaded" /\ t.parse.outcome = "ok",
                         Parse(t.parse.ents, t.parse.long, t.parse.finance)) ]

DomainStep(t, ling) ==
    DomainChecker_check([ blank |-> FALSE, words |-> t.domain.words,
                          matched |-> t.domain.matched,
                          negatives |-> t.domain.negatives ], ling)

AnalysisStep(cur, load_ok, t, domain) ==
    LET content_analyzer == LazyGet(TRUE, cur, load_ok)
    IN  IF ~content_analyzer \/ t.analysis.outcome = "raises"
        THEN [ analyzer |-> content_analyzer, analysis |-> DefaultContentAnalysis,
               domain |-> domain ]
        ELSE LET analysis == ContentAnalyzer_analyze(t.analysis.f)
             IN  [ analyzer |-> content_analyzer, analysis |-> analysis,
                   domain |-> ApplyContentAnalysis(domain, analysis) ]

RuleStep(t) == RuleEngine_check(t.rule.tiers, t.rule.hits)

FuzzyStep(cfg, cur, load_ok, t) ==
    IF ~cfg.enable_fuzzy THEN [ matcher |-> cur, result |-> EmptyMatchResult ]
    ELSE LET matcher == LazyGet(cfg.enable_fuzzy, cur, load_ok)
         IN  [ matcher |-> matcher,
               result |-> IF ~matcher \/ t.fuzzy.outcome = "raises"
                          THEN EmptyMatchResult
                          ELSE FuzzyMatcher_check(t.whitelisted, t.fuzzy.ngrams,
                                                  cfg.fuzzy_threshold) ]

SemanticStep(cfg, cur, load_ok, t) ==
    LET semantic_checker == LazyGet(cfg.enable_semantic, cur, load_ok)
    IN  [ checker |-> semantic_checker,
          result |-> IF ~semantic_checker \/ t.semantic.outcome = "raises"
                     THEN EmptyMatchResult
                     ELSE SemanticChecker_check(cfg.enable_semantic, t.whitelisted,
                                                t.semantic.outcome = "ok",
                                                t.semantic.sims,
                                                cfg.semantic_threshold) ]

\* the toxicity scan skipped once the rule scan has found a scam signal
ToxicityStep_AfterRule(t, ling) ==
    ToxicityChecker_check(t.whitelisted \/ Get(scam_result, "score", 0) > 0,
                          t.toxicity, ling)

ToxicityStep(t, ling) == ToxicityChecker_check(t.whitelisted, t.toxicity, ling)

\* the lazily loaded components of a moderator
Components(analyzer, matcher, checker, nlp) ==
    [ _content_analyzer |-> analyzer, _fuzzy_matcher |-> matcher,
      _semantic_checker |-> checker, _nlp |-> nlp ]

\* moderate(content) on the moderator m: the verdict returned, the moderator
\* it leaves behind and the results of the scanners that ran
moderate(cfg, m, loads, t) ==
    IF IsBlank(t.content)
    THEN [ verdict |-> EmptyContentVerdict, moderator |-> m, domain |-> None,
           scam |-> None, fuzzy |-> None, semantic |-> None, toxicity |-> None ]
    ELSE
      LET ling == IF Reached("linguistic", t.raises)
                  THEN LinguisticStep(m._nlp, loads.nlp, t)
                  ELSE [ nlp |-> m._nlp, result |-> None ]
          vocab == IF Reached("domain", t.raises) THEN DomainStep(t, ling.result)
                   ELSE None
          an == IF Reached("analysis", t.raises)
                THEN AnalysisStep(m._content_analyzer, loads.content_analyzer, t, vocab)
                ELSE [ analyzer |-> m._content_analyzer,
                       analysis |-> None, domain |-> None ]
          scam == IF Reached("rule", t.raises) THEN RuleStep(t) ELSE None
          fz == IF Reached("fuzzy", t.raises)
                THEN FuzzyStep(cfg, m._fuzzy_matcher, loads.fuzzy_matcher, t)
                ELSE [ matcher |-> m._fuzzy_matcher, result |-> None ]
          sem == IF Reached("semantic", t.raises)
                 THEN SemanticStep(cfg, m._semantic_checker, loads.semantic_checker, t)
                 ELSE [ checker |-> m._semantic_checker, result |-> None ]
          tox == IF Reached("toxicity", t.raises) THEN ToxicityStep(t, ling.result)
                 ELSE None
      IN  [ verdict |-> IF t.raises # "none" THEN SystemErrorVerdict
                        ELSE decide(cfg, an.domain, scam, tox, fz.result,
                                    sem.result).verdict,
            moderator |-> Components(an.analyzer, fz.matcher, sem.checker, ling.nlp),
            domain |-> an.domain, scam |-> scam, fuzzy |-> fz.result,
            semantic |-> sem.result, toxicity |-> tox ]

\* ------------------------------------------------------------------------
\* Calls of moderate and moderate_batch on one moderator, over a world that
\* fixes the texts and the collaborators' responses
\* ------------------------------------------------------------------------
\* the longest list of texts of a world, and the most single calls made
MaxBatch == 2

\* the texts of a world: a blank one, a finance post the scanners find
\* nothing in, the same post carrying a misspelled scam phrase that only the
\* fuzzy matcher and the semantic checker recognise, and variants of it
WorldTexts ==
    LET CleanText ==
            [ content |-> << "x" >>, whitelisted |-> FALSE, raises |-> "none",
              parse |-> [ outcome |-> "ok",
                          ents |-> << [ label |-> "ORG", kind |-> "plain" ] >>,
                          long |-> TRUE, finance |-> TRUE ],
              domain |-> [ words |-> 10,
                           matched |-> { m \in FinanceTerms :
                                           m.term \in { "loan", "nifty" } },
                           negatives |-> 0 ],
              analysis |-> [ outcome |-> "ok",
                             f |-> CHOOSE f \in AnalysisTexts : f.discourse = "neutral" ],
              rule |-> [ tiers |-> {}, hits |-> {} ],
              fuzzy |-> [ outcome |-> "ok", ngrams |-> <<>> ],
              semantic |-> [ outcome |-> "ok", sims |-> NoSimilarity ],
              toxicity |-> {} ]
        ScamText ==
            [ CleanText EXCEPT
                !.fuzzy = [ outcome |-> "ok",
                            ngrams |-> << CHOOSE g \in FuzzyNgrams :
                                            g.matched = "guaranteed returns" >> ],
                !.semantic = [ outcome |-> "ok",
                               sims |-> [ i \in 1..Len(ScamTemplates) |->
                                            IF i = 1 THEN 8600 ELSE 3600 ] ] ]
    IN  { [ CleanText EXCEPT !.content = << " " >> ],
          CleanText,
          ScamText,
          [ ScamText EXCEPT !.raises = "toxicity" ],
          [ ScamText EXCEPT
              !.analysis.outcome = "raises",
              !.semantic = [ outcome |-> "model_fails", sims |-> NoSimilarity ],
              !.rule = [ tiers |-> { "opinion" }, hits |-> { "kw_medium" } ],
              !.parse = [ outcome |-> "parse_fails", ents |-> <<>>,
                          long |-> FALSE, finance |-> FALSE ],
              !.toxicity = { "mild_profanity" } ] }

\* the collaborators all load, or exactly one of them does not
Loads ==
    { l \in [ { "nlp", "content_analyzer", "fuzzy_matcher", "semantic_checker" } -> BOOLEAN ] :
        Cardinality({ k \in DOMAIN l : ~l[k] }) <= 1 }

InitBatch ==
    /\ Constructed
    /\ _nlp = "unloaded"
    /\ \E ts \in SeqsUpTo(WorldTexts, MaxBatch), l \in Loads :
          world = [ texts |-> ts, loads |-> l,
                    fresh |-> Components(FALSE, FALSE, FALSE, _nlp) ]
    /\ returned = [ calls |-> <<>>, batch |-> None ]

Moderator == Components(_content_analyzer, _fuzzy_matcher, _semantic_checker, _nlp)

RECURSIVE comprehension(_, _, _, _, _)
\* the list comprehension of moderate_batch: the verdicts collected so far
\* and the texts still to moderate, in their order
comprehension(cfg, m, loads, contents, collected) ==
    IF contents = <<>> THEN [ verdicts |-> collected, moderator |-> m ]
    ELSE LET r == moderate(cfg, m, loads, Head(contents))
         IN  comprehension(cfg, r.moderator, loads, Tail(contents),
                           Append(collected, r.verdict))

\* [self.moderate(content) for content in contents]
moderate_batch(cfg, m, loads, contents) ==
    comprehension(cfg, m, loads, contents, <<>>)

Keeps(m) ==
    /\ _content_analyzer' = m._content_analyzer
    /\ _fuzzy_matcher' = m._fuzzy_matcher
    /\ _semantic_checker' = m._semantic_checker
    /\ _nlp' = m._nlp
    /\ UNCHANGED << config, pc, calls, content, rule_input, analysis_input,
                    semantic_input, whitelisted, events, invoked, raised,
                    linguistic_result, vocab_result, domain_result, content_analysis,
                    scam_result, fuzzy_result, semantic_result, toxicity_result,
                    verdict, engine, world >>
    /\ UNCHANGED lazy_vars

\* one call moderate(world.texts[i])
ModerateOne(i) ==
    /\ Len(returned.calls) < MaxBatch
    /\ LET r == moderate(config, Moderator, world.loads, world.texts[i])
       IN  /\ returned' = [ returned EXCEPT
                              !.calls = Append(@, [ text |-> i, verdict |-> r.verdict ]) ]
           /\ Keeps(r.moderator)

\* one call moderate_batch(world.texts)
ModerateBatch ==
    /\ returned.batch = None
    /\ LET r == moderate_batch(config, Moderator, world.loads, world.texts)
       IN  /\ returned' = [ returned EXCEPT !.batch = r.verdicts ]
           /\ Keeps(r.moderator)

NextBatch ==
    \/ \E i \in 1..Len(world.texts) : ModerateOne(i)
    \/ ModerateBatch

SpecBatch == InitBatch /\ [][NextBatch]_vars

\* ------------------------------------------------------------------------
\* Steps 3 to 6 of moderate run in any order, and interleaved, once the
\* domain result is fixed
\* ------------------------------------------------------------------------
OrderTexts ==
    LET given == { t \in WorldTexts : ~IsBlank(t.content) }
    IN  given \cup { [ t EXCEPT !.raises = "rule" ] : t \in given }

InitOrder ==
    /\ Constructed
    /\ \E t \in OrderTexts, l \in Loads :
          world = [ text |-> t, loads |-> l,
                    fresh |-> Components(FALSE, FALSE, FALSE, _nlp) ]
    /\ returned = None

\* what no step of the scan assigns
order_fixed ==
    << config, calls, content, rule_input, analysis_input, semantic_input,
       whitelisted, events, engine, lazy_vars, world, returned >>

\* steps 1 to 2.5: the domain result the scanners start from
ScanPrepare ==
    /\ pc = "idle"
    /\ LET ling == LinguisticStep(_nlp, world.loads.nlp, world.text)
           vocab == DomainStep(world.text, ling.result)
           an == AnalysisStep(_content_analyzer, world.loads.content_analyzer,
                              world.text, vocab)
       IN  /\ _nlp' = ling.nlp
           /\ linguistic_result' = ling.result
           /\ vocab_result' = vocab
           /\ _content_analyzer' = an.analyzer
           /\ content_analysis' = an.analysis
           /\ domain_result' = an.domain
    /\ pc' = "scan"
    /\ UNCHANGED << _fuzzy_matcher, _semantic_checker, invoked, raised, scam_result,
                    fuzzy_result, semantic_result, toxicity_result, verdict >>
    /\ UNCHANGED order_fixed

\* a scanner raises into the handler of moderate
ScanRaises ==
    /\ raised' = TRUE
    /\ verdict' = SystemErrorVerdict
    /\ pc' = "done"

ScanRule ==
    /\ pc = "scan"
    /\ scam_result = None
    /\ IF world.text.raises = "rule"
       THEN ScanRaises /\ UNCHANGED scam_result
       ELSE /\ scam_result' = RuleStep(world.text)
            /\ UNCHANGED << raised, verdict, pc >>
    /\ UNCHANGED << _nlp, _content_analyzer, _fuzzy_matcher, _semantic_checker, invoked,
                    linguistic_result, vocab_result, domain_result, content_analysis,
                    fuzzy_result, semantic_result, toxicity_result >>
    /\ UNCHANGED order_fixed

\* self._get_fuzzy_matcher()
ScanFuzzyGet ==
    /\ pc = "scan"
    /\ "fuzzy_matcher" \notin invoked
    /\ invoked' = invoked \cup { "fuzzy_matcher" }
    /\ _fuzzy_matcher' =
          FuzzyStep(config, _fuzzy_matcher, world.loads.fuzzy_matcher, world.text).matcher
    /\ UNCHANGED << _nlp, _content_analyzer, _semantic_checker, raised, verdict, pc,
                    linguistic_result, vocab_result, domain_result, content_analysis,
                    scam_result, fuzzy_result, semantic_result, toxicity_result >>
    /\ UNCHANGED order_fixed

\* matcher.check(cleaned_text)
ScanFuzzy ==
    /\ pc = "scan"
    /\ "fuzzy_matcher" \in invoked
    /\ fuzzy_result = None
    /\ fuzzy_result' =
          FuzzyStep(config, _fuzzy_matcher, world.loads.fuzzy_matcher, world.text).result
    /\ UNCHANGED << _nlp, _content_analyzer, _fuzzy_matcher, _semantic_checker, invoked,
                    raised, verdict, pc,
                    linguistic_result, vocab_result, domain_result, content_analysis,
                    scam_result, semantic_result, toxicity_result >>
    /\ UNCHANGED order_fixed

\* self._get_semantic_checker()
ScanSemanticGet ==
    /\ pc = "scan"
    /\ "semantic_checker" \notin invoked
    /\ invoked' = invoked \cup { "semantic_checker" }
    /\ _semantic_checker' =
          SemanticStep(config, _semantic_checker, world.loads.semantic_checker,
                       world.text).checker
    /\ UNCHANGED << _nlp, _content_analyzer, _fuzzy_matcher, raised, verdict, pc,
                    linguistic_result, vocab_result, domain_result, content_analysis,
                    scam_result, fuzzy_result, semantic_result, toxicity_result >>
    /\ UNCHANGED order_fixed

\* semantic_checker.check(content)
ScanSemantic ==
    /\ pc = "scan"
    /\ "semantic_checker" \in invoked
    /\ semantic_result = None
    /\ semantic_result' =
          SemanticStep(config, _semantic_checker, world.loads.semantic_checker,
                       world.text).result
    /\ UNCHANGED << _nlp, _content_analyzer, _fuzzy_matcher, _semantic_checker, invoked,
                    raised, verdict, pc,
                    linguistic_result, vocab_result, domain_result, content_analysis,
                    scam_result, fuzzy_result, toxicity_result >>
    /\ UNCHANGED order_fixed

ScanToxicity ==
    /\ pc = "scan"
    /\ toxicity_result = None
    /\ IF world.text.raises = "toxicity"
       THEN ScanRaises /\ UNCHANGED toxicity_result
       ELSE /\ toxicity_result' = ToxicityStep(world.text, linguistic_result)
            /\ UNCHANGED << raised, verdict, pc >>
    /\ UNCHANGED << _nlp, _content_analyzer, _fuzzy_matcher, _semantic_checker, invoked,
                    linguistic_result, vocab_result, domain_result, content_analysis,
                    scam_result, fuzzy_result, semantic_result >>
    /\ UNCHANGED order_fixed

\* step 7, once the four scanners have returned
ScanDecide ==
    /\ pc = "scan"
    /\ scam_result # None /\ fuzzy_result # None
    /\ semantic_result # None /\ toxicity_result # None
    /\ verdict' = decide(config, domain_result, scam_result, toxicity_result,
                         fuzzy_result, semantic_result).verdict
    /\ pc' = "done"
    /\ UNCHANGED << _nlp, _content_analyzer, _fuzzy_matcher, _semantic_checker, invoked,
                    raised, linguistic_result, vocab_result, domain_result,
                    content_analysis, scam_result, fuzzy_result, semantic_result,
                    toxicity_result >>
    /\ UNCHANGED order_fixed

NextOrder ==
    \/ ScanPrepare
    \/ ScanRule
    \/ ScanFuzzyGet
    \/ ScanFuzzy
    \/ ScanSemanticGet
    \/ ScanSemantic
    \/ ScanToxicity
    \/ ScanDecide

SpecOrder == InitOrder /\ [][NextOrder]_vars

\* ------------------------------------------------------------------------
\* One scanner's check called on its own, over a grid of what it can meet in
\* a text
\* ------------------------------------------------------------------------
\* similarities and thresholds in steps of 0.01
Hundredths == { 100 * k : k \in 0..100 }

SemanticThresholds == { 1000 * k : k \in 1..9 } \cup { DEFAULT_CONFIG.semantic_threshold }

\* a text by its similarity to the two templates, and the checker's threshold
SemanticInputs ==
    { [ scanner |-> "semantic", sims |-> << m, low >>, threshold |-> t ] :
        m \in Hundredths, low \in { 0, 3600 }, t \in SemanticThresholds }

\* the longest list of n-grams of a text
MaxNgrams == 3

\* a text's n-grams come in the order of _generate_ngrams, all those of 2
\* words, then those of 3, then those of 4.
\* n-grams with what process.extractOne returns for them: two spellings
\* that match the same phrase, one that matches another, one shorter than
\* 10 characters, one far longer and one far shorter than its phrase, one
\* that resembles nothing, and one on both boundaries
NgramGrid ==
    FuzzyNgrams \cup
    { [ input |-> "guaranteed returns", n |-> 2, len |-> 18, matched |-> "guaranteed returns",
        matched_len |-> 18, similarity |-> One ],
      [ input |-> "gaurenteed returns evry", n |-> 3, len |-> 23, matched |-> "guaranteed returns",
        matched_len |-> 18, similarity |-> 8780 ],
      [ input |-> "get rich", n |-> 2, len |-> 8, matched |-> "get rich quick",
        matched_len |-> 14, similarity |-> 7300 ],
      [ input |-> "easy money for everybody participating", n |-> 4, len |-> 38,
        matched |-> "easy money", matched_len |-> 10, similarity |-> 9000 ],
      [ input |-> "risk free no", n |-> 3, len |-> 12, matched |-> "risk free investment",
        matched_len |-> 20, similarity |-> 8200 ],
      [ input |-> "monthly newsletter", n |-> 2, len |-> 18, matched |-> "never lose money",
        matched_len |-> 16, similarity |-> 4100 ],
      [ input |-> "ern mny frm hm", n |-> 4, len |-> 14, matched |-> "earn money from home",
        matched_len |-> 20, similarity |-> 8000 ] }

\* FuzzyMatcher.DEFAULT_THRESHOLD and what ContentModerator passes
FuzzyThresholds == { 7500, DEFAULT_CONFIG.fuzzy_threshold }

FuzzyInputs ==
    { [ scanner |-> "fuzzy", whitelisted |-> w, ngrams |-> gs, threshold |-> t ] :
        w \in BOOLEAN, t \in FuzzyThresholds,
        gs \in { x \in SeqsUpTo(NgramGrid, MaxNgrams) :
                   \A i \in 1..(Len(x) - 1) : x[i].n <= x[i + 1].n } }

\* a text by the context families and the pattern classes found in it
RuleInputs ==
    { [ scanner |-> "rule", tiers |-> tiers, hits |-> hits ] :
        tiers \in SUBSET ContextTiers, hits \in SUBSET RuleKinds }

\* the most entities spaCy finds in a text
MaxEntities == 2

\* entities as DomainChecker.check tells them apart
EntityGrid ==
    Entities \cup { [ label |-> "ORG", kind |-> "negative" ],
                    [ label |-> "MONEY", kind |-> "noise" ] }

\* the vocabulary with a term of the ambiguous set that is no longer than
\* two characters
Vocabulary ==
    FinanceTerms \cup { [ term |-> "rs", ambiguous |-> TRUE, strong |-> FALSE,
                          high_priority |-> FALSE ] }

\* a text by what the vocabulary scan and spaCy find in it; a text without a
\* word longer than 2 characters matches only terms that short, and the
\* sentence that holds the entities holds a finance term only if the text
\* does
DomainInputs ==
    { x \in
        { [ scanner |-> "domain",
            text |-> [ blank |-> FALSE, words |-> words, matched |-> matched,
                       negatives |-> negatives ],
            linguistic_result |->
                LinguisticAnalyzer_analyze(available,
                                           Parse(ents, long, finance /\ matched # {})) ] :
            words \in DomainWordCounts, matched \in SUBSET Vocabulary,
            negatives \in { 0, 1 }, available \in BOOLEAN, long \in BOOLEAN,
            finance \in BOOLEAN, ents \in SeqsUpTo(EntityGrid, MaxEntities) } :
        x.text.words = 0 =>
            /\ x.text.negatives = 0
            /\ \A m \in x.text.matched : Len(m.term) <= 2 }

\* the most terms of one category, and the most categories, found in a text
MaxTerms == 2
MaxCategories == 3

\* a text by the number of terms of each toxicity category that occur in
\* it: up to MaxCategories categories occur, one of them with several terms
ToxicityInputs ==
    { [ scanner |-> "toxicity", whitelisted |-> w,
        count |-> [ c \in ToxicSetCategories \cup ToxicExtras |->
                      IF c = d THEN k ELSE IF c \in h THEN 1 ELSE 0 ],
        linguistic_result |->
            LinguisticAnalyzer_analyze(TRUE, Parse(ents, FALSE, FALSE)) ] :
        w \in BOOLEAN, h \in AtMost(ToxicSetCategories \cup ToxicExtras, MaxCategories),
        d \in ToxicSetCategories \cup ToxicExtras, k \in 0..MaxTerms,
        ents \in SeqsUpTo({ e \in Entities : e.label = "PERSON" }, 1) }

\* how a term occurs in a text: not at all, only as a fragment of a longer
\* word, or delimited by word boundaries
Occurrences == { "absent", "fragment", "word" }

\* term lengths on both sides of the scanner's length test
TermLengths == { 4, 8, 9, 12 }

\* RuleEngine._match_pattern: a phrase by substring, a single word by the
\* regex \b...\b
_match_pattern(term, occurrence) ==
    IF term.spaces THEN occurrence # "absent" ELSE occurrence = "word"

\* the test of ToxicityChecker._check_pattern_set for one term:
\* _match_single_word for a term without a space of at most 8 characters,
\* _match_phrase otherwise
ToxicTermMatches(term, occurrence) ==
    IF ~term.spaces /\ term.len <= 8 THEN occurrence = "word"
    ELSE occurrence # "absent"

\* a text and one term of a pattern set, by how the term occurs in the text
MatchInputs ==
    { [ scanner |-> "match", term |-> [ spaces |-> sp, len |-> n ], occurrence |-> o ] :
        sp \in BOOLEAN, n \in TermLengths, o \in Occurrences }

\* DecisionEngine.decide called on result dicts: a rule result of any score
\* with any signals, and the results the other scanners return
RuleScores == { 0, 1000, 1990, 2000, 5000 }

DecideInputs ==
    { [ scanner |-> "decide", cfg |-> cfg,
        domain_result |-> [ is_finance |-> f, score |-> IF f THEN 2500 ELSE 0 ],
        scam_result |-> [ score |-> sc, signals |-> SelectSeq2(RulePatterns, hits) ],
        toxicity_result |-> ToxicityChecker_check(FALSE, tx, _get_empty_result),
        fuzzy_result |-> FuzzyMatcher_check(FALSE, ng, cfg.fuzzy_threshold),
        semantic_result |-> SemanticChecker_check(TRUE, FALSE, TRUE, sims,
                                                  cfg.semantic_threshold) ] :
      cfg \in Configs, f \in BOOLEAN, sc \in RuleScores,
      hits \in SUBSET { "kw_high", "kw_low" },
      tx \in { {}, { "mild_profanity" }, { "hate_speech" } },
      ng \in { <<>> } \cup { << g >> : g \in FuzzyNgrams },
      sims \in { NoSimilarity, [ i \in 1..Len(ScamTemplates) |-> 8600 ] } }

\* what step 2.5 of moderate meets: a text of 15 words with a terminal mark
\* and a capital, whose avg_top5_finance similarity lies around the values
\* that bring the unified score to 0.35 and to 0.50, and the score the
\* domain checker gave it
TopicSimilarities == { 1320, 1340, 3000, 3660, 3670, 7000 }

AnalysisInputs ==
    { [ scanner |-> "analysis",
        domain_result |-> [ is_finance |-> v > 0, score |-> v ],
        text |-> [ model_ok |-> TRUE,
                   sims |-> [ max_finance |-> a + 1000, avg_top5_finance |-> a,
                              max_negative |-> 1000 ],
                   word_count |-> 15, high_count |-> 0, low_count |-> 0,
                   discourse |-> d, terminal |-> TRUE, capital |-> TRUE,
                   shouting |-> FALSE, punct_heavy |-> FALSE ] ] :
      a \in TopicSimilarities, d \in { "neutral", "gossip" }, v \in { 0, 2500 } }

ScannerInputs ==
    SemanticInputs \cup FuzzyInputs \cup RuleInputs \cup DomainInputs
        \cup ToxicityInputs \cup MatchInputs \cup DecideInputs
        \cup AnalysisInputs

InitScanner ==
    /\ Constructed
    /\ config = DEFAULT_CONFIG
    /\ _nlp = "unloaded"
    /\ world \in ScannerInputs
    /\ returned = None

\* SemanticChecker(threshold, enable=True).check(text)
CallSemanticCheck ==
    /\ world.scanner = "semantic"
    /\ returned = None
    /\ returned' = SemanticChecker_check(TRUE, FALSE, TRUE, world.sims, world.threshold)
    /\ UNCHANGED << pipeline_vars, lazy_vars, world >>

\* FuzzyMatcher(threshold).check(text)
CallFuzzyCheck ==
    /\ world.scanner = "fuzzy"
    /\ returned = None
    /\ returned' = FuzzyMatcher_check(world.whitelisted, world.ngrams, world.threshold)
    /\ UNCHANGED << pipeline_vars, lazy_vars, world >>

\* RuleEngine().check(text)
CallRuleCheck ==
    /\ world.scanner = "rule"
    /\ returned = None
    /\ returned' = RuleEngine_check(world.tiers, world.hits)
    /\ UNCHANGED << pipeline_vars, lazy_vars, world >>

\* DomainChecker().check(text, linguistic_result)
CallDomainCheck ==
    /\ world.scanner = "domain"
    /\ returned = None
    /\ returned' = DomainChecker_check(world.text, world.linguistic_result)
    /\ UNCHANGED << pipeline_vars, lazy_vars, world >>

\* ToxicityChecker().check(text, linguistic_result)
CallToxicityCheck ==
    /\ world.scanner = "toxicity"
    /\ returned = None
    /\ returned' = ToxicityChecker_scan(world.whitelisted, world.count,
                                        world.linguistic_result)
    /\ UNCHANGED << pipeline_vars, lazy_vars, world >>

\* ToxicityChecker._check_pattern_set(text_lower, {term}, category, score, result)
CallCheckPatternSet ==
    /\ world.scanner = "match"
    /\ returned = None
    /\ returned' = _check_pattern_set(
                       IF ToxicTermMatches(world.term, world.occurrence)
                       THEN << "term" >> ELSE <<>>,
                       "mild_profanity", 3000,
                       [ score |-> 0, is_toxic |-> FALSE, categories |-> <<>>,
                         matched |-> <<>>, skipped_context |-> FALSE ])
    /\ UNCHANGED << pipeline_vars, lazy_vars, world >>

\* DecisionEngine(config).decide(domain, scam, toxicity, fuzzy, semantic)
CallDecide ==
    /\ world.scanner = "decide"
    /\ returned = None
    /\ returned' = decide(world.cfg, world.domain_result, world.scam_result,
                          world.toxicity_result, world.fuzzy_result,
                          world.semantic_result)
    /\ UNCHANGED << pipeline_vars, lazy_vars, world >>

\* step 2.5 of moderate: content_analyzer.analyze(content, linguistic_result)
\* and the override of the domain result
CallAnalysis ==
    /\ world.scanner = "analysis"
    /\ returned = None
    /\ LET analysis == ContentAnalyzer_analyze(world.text)
       IN  returned' = [ content_analysis |-> analysis,
                         domain_result |-> ApplyContentAnalysis(world.domain_result,
                                                                analysis) ]
    /\ UNCHANGED << pipeline_vars, lazy_vars, world >>

NextScanner ==
    \/ CallAnalysis
    \/ CallDecide
    \/ CallCheckPatternSet
    \/ CallToxicityCheck
    \/ CallSemanticCheck
    \/ CallFuzzyCheck
    \/ CallRuleCheck
    \/ CallDomainCheck

SpecScanner == InitScanner /\ [][NextScanner]_vars

\* ------------------------------------------------------------------------
\* The HTTP endpoints: POST /api/moderate and POST /api/analyze
\* ------------------------------------------------------------------------
\* requests served in a behaviour
MaxRequests == 2

\* len(text.strip()) of a request: under 10, under 50, and at least 50
RequestLengths == { 5, 20, 60 }

\* the texts clients send: [text, chars]
ApiTexts ==
    { [ text |-> t, chars |-> c ] :
        t \in { x \in WorldTexts : /\ ~IsBlank(x.content)
                                   /\ x.analysis.outcome = "ok"
                                   /\ ~x.whitelisted },
        c \in RequestLengths }

InitApi ==
    /\ Constructed
    /\ \E l \in Loads : world = [ loads |-> l ]
    /\ returned = <<>>

\* moderate_content(text): the ModerationResponse built from the verdict
moderate_content(result) ==
    LET decision == Get(result, "decision", DECISION_FLAG)
    IN  [ decision |-> decision,
          risk_score |-> Get(result, "risk_score", 0),
          is_finance_related |-> Get(result, "is_finance_related", FALSE),
          can_proceed |-> decision = DECISION_PASS ]

\* POST /api/moderate
moderate_thesis(x) ==
    /\ Len(returned) < MaxRequests
    /\ IF x.chars < 10
       THEN /\ returned' = Append(returned, [ endpoint |-> "moderate", request |-> x,
                                              status |-> 400 ])
            /\ UNCHANGED << _content_analyzer, _fuzzy_matcher, _semantic_checker, _nlp >>
       ELSE LET r == moderate(config, Moderator, world.loads, x.text)
            IN  /\ returned' = Append(returned,
                                      [ endpoint |-> "moderate", request |-> x,
                                        status |-> 200,
                                        response |-> moderate_content(r.verdict) ])
                /\ _content_analyzer' = r.moderator._content_analyzer
                /\ _fuzzy_matcher' = r.moderator._fuzzy_matcher
                /\ _semantic_checker' = r.moderator._semantic_checker
                /\ _nlp' = r.moderator._nlp
    /\ UNCHANGED << config, pc, calls, content, rule_input, analysis_input,
                    semantic_input, whitelisted, events, invoked, raised,
                    linguistic_result, vocab_result, domain_result, content_analysis,
                    scam_result, fuzzy_result, semantic_result, toxicity_result,
                    verdict, engine, world >>
    /\ UNCHANGED lazy_vars

\* POST /api/analyze: status 200 when StrengthAnalyzer.analyze ran on the text
analyze_thesis(x) ==
    /\ Len(returned) < MaxRequests
    /\ returned' = Append(returned, [ endpoint |-> "analyze", request |-> x,
                                      status |-> IF x.chars < 50 THEN 400 ELSE 200 ])
    /\ UNCHANGED << pipeline_vars, lazy_vars, world >>

NextApi ==
    \/ \E x \in ApiTexts : moderate_thesis(x)
    \/ \E x \in ApiTexts : analyze_thesis(x)

SpecApi == InitApi /\ [][NextApi]_vars

\* ------------------------------------------------------------------------
\* Properties
\* ------------------------------------------------------------------------

\* C1: every call of moderate returns a verdict whose decision is one of
\* PASS, FLAG and BLOCK and whose risk_score lies in [0, 1].
C1_VerdictInRange ==
    pc = "done" =>
        /\ verdict.decision \in { DECISION_PASS, DECISION_FLAG, DECISION_BLOCK }
        /\ 0 <= verdict.risk_score
        /\ verdict.risk_score <= One

\* C2: when a step of moderate raises, the call returns FLAG with risk_score
\* 1.0 and flags exactly [system_error]; it never returns PASS.
C2_FailSafeFlag ==
    (pc = "done" /\ raised) =>
        /\ verdict.decision = DECISION_FLAG
        /\ verdict.decision # DECISION_PASS
        /\ verdict.risk_score = One
        /\ verdict.flags = << <<"system_error">> >>

\* a call in which the domain check was reached and a later step raised
C2_Witness ==
    /\ pc = "done"
    /\ raised
    /\ "domain_checker" \in invoked
    /\ verdict.decision = DECISION_FLAG

\* C3: an empty or whitespace-only content makes moderate return at once with
\* FLAG, the flag empty_content and risk_score 0.0; nothing has been invoked
\* and no lazy component has been loaded by the call.
C3_EmptyShortCircuit ==
    [][ (content' = <<>> \/ \A i \in 1..Len(content') : content'[i] = " ") =>
          /\ pc' = "done"
          /\ verdict'.decision = DECISION_FLAG
          /\ \E i \in 1..Len(verdict'.flags) : verdict'.flags[i] = <<"empty_content">>
          /\ verdict'.risk_score = 0
          /\ invoked' = {}
          /\ UNCHANGED << _content_analyzer, _fuzzy_matcher, _semantic_checker, _nlp >>
      ]_vars

\* a call on a non-empty run of whitespace has returned
C3_Witness ==
    /\ pc = "done"
    /\ calls > 0
    /\ content # <<>>
    /\ \A i \in 1..Len(content) : content[i] = " "
    /\ verdict.decision = DECISION_FLAG

\* C4: past the topic gate the decision is BLOCK iff risk >= block_threshold
\* or high_severity_count >= min_block_signals; otherwise FLAG iff
\* risk >= flag_threshold or (high_severity_count >= 1 and risk >= 0.1);
\* otherwise PASS.
C4_VerdictRule ==
    (pc = "done" /\ engine.fused) =>
        LET risk == verdict.risk_score
            n == engine.high_sev_count
            block == risk >= config.block_threshold \/ n >= config.min_block_signals
            flag == risk >= config.flag_threshold \/ (n >= 1 /\ risk >= 1000)
        IN  /\ (verdict.decision = DECISION_BLOCK) <=> block
            /\ (verdict.decision = DECISION_FLAG) <=> (~block /\ flag)
            /\ (verdict.decision = DECISION_PASS) <=> (~block /\ ~flag)

\* a BLOCK that rests on a high-severity signal alone, the risk being below
\* block_threshold
C4_Witness ==
    /\ pc = "done"
    /\ engine.fused
    /\ verdict.decision = DECISION_BLOCK
    /\ verdict.risk_score < config.block_threshold
    /\ engine.high_sev_count >= config.min_block_signals

\* C5: when the domain score handed to decide is below finance_flag_threshold,
\* or below 0.15 with is_finance false, the verdict is BLOCK with flags exactly
\* [off_topic], confidence 1 - score and risk_score 0.0, whatever the scanners
\* found.
C5_TopicGateFirst ==
    (/\ pc = "done"
     /\ ~raised
     /\ "decision_engine" \in invoked
     /\ \/ domain_result.score < config.finance_flag_threshold
        \/ (domain_result.score < 1500 /\ ~domain_result.is_finance)) =>
        /\ verdict.decision = DECISION_BLOCK
        /\ verdict.flags = << <<"off_topic">> >>
        /\ verdict.confidence = One - domain_result.score
        /\ verdict.risk_score = 0
        /\ ~engine.fused

\* an off-topic text in which both the rule scan and the toxicity scan found
\* something
C5_Witness ==
    /\ pc = "done"
    /\ "decision_engine" \in invoked
    /\ ~raised
    /\ ~engine.fused
    /\ scam_result.score > 0
    /\ toxicity_result.is_toxic
    /\ verdict.decision = DECISION_BLOCK

\* C6: when the toxicity scan reports a category among hate_speech,
\* personal_attack, severe_profanity, threat, harassment, doxxing and
\* defamation on a text past the topic gate, high_severity_count is at least 1
\* and the verdict is BLOCK.
C6_HighSeverityCounts ==
    (/\ pc = "done"
     /\ engine.fused
     /\ \E i \in 1..Len(toxicity_result.categories) :
           toxicity_result.categories[i] \in HighSeverityCategories) =>
        /\ engine.high_sev_count >= 1
        /\ verdict.decision = DECISION_BLOCK

\* C7: with a strong whitelist-context phrase in the text, RuleEngine.check
\* returns score 0, no signal and severity none without scanning, and the
\* rule scanner adds no flag, no high-severity count and no risk to the
\* verdict.
C7_StrongContextSkips ==
    (/\ DOMAIN rule_input # {}
     /\ rule_input.tiers \cap { "whitelist", "strong" } # {}) =>
        /\ scam_result.score = 0
        /\ scam_result.signals = <<>>
        /\ scam_result.severity = "none"
        /\ "rule_scan" \notin invoked
        /\ (pc = "done" /\ engine.fused) =>
              /\ \A i \in 1..Len(verdict.flags) : verdict.flags[i][1] # "scam"
              /\ _get_scam_flags(scam_result).count = 0
              /\ verdict.risk_score =
                    Round3(Max3((toxicity_result.score * config.toxicity_weight) \div One,
                                (fuzzy_result.score * config.fuzzy_weight) \div One,
                                (semantic_result.score * config.semantic_weight) \div One))

\* a finance text with a strong context phrase and scam patterns in it
C7_Witness ==
    /\ pc = "done"
    /\ engine.fused
    /\ "strong" \in rule_input.tiers
    /\ rule_input.hits # {}
    /\ scam_result.score = 0

\* C8: past the topic gate, risk_score = round(max(rule * scam_weight +
\* toxicity * toxicity_weight, fuzzy * fuzzy_weight,
\* semantic * semantic_weight), 3), an absent fuzzy or semantic result
\* counting as 0.
C8_RiskFormula ==
    (pc = "done" /\ engine.fused) =>
        verdict.risk_score =
            Round3(Max3((scam_result.score * config.scam_weight
                           + toxicity_result.score * config.toxicity_weight) \div One,
                        (Get(fuzzy_result, "score", 0) * config.fuzzy_weight) \div One,
                        (Get(semantic_result, "score", 0) * config.semantic_weight)
                            \div One))

\* the semantic term wins the max over a non-zero rule score
C8_Witness ==
    /\ pc = "done"
    /\ engine.fused
    /\ scam_result.score > 0
    /\ semantic_result.score > 0
    /\ verdict.risk_score = (semantic_result.score * config.semantic_weight) \div One
    /\ verdict.risk_score >
          (scam_result.score * config.scam_weight
             + toxicity_result.score * config.toxicity_weight) \div One

\* C9: after a successful content analysis with unified score u, the domain
\* result is (max(v, u), true) if u >= 0.50, (0, false) if u < 0.35, and in
\* between ((v + u) / 2, true) if v >= 0.20 and (0, false) otherwise, v being
\* the vocabulary score; with u < 0.35 the verdict is an off_topic BLOCK.
C9_OverrideMatrix ==
    (/\ DOMAIN content_analysis # {}
     /\ content_analysis.decision # "") =>
        LET u == content_analysis.unified_score
            v == vocab_result.score
        IN  /\ u >= 5000 =>
                  /\ domain_result.score = Max2(v, u)
                  /\ domain_result.is_finance
            /\ u < 3500 =>
                  /\ domain_result.score = 0
                  /\ ~domain_result.is_finance
            /\ (3500 <= u /\ u < 5000 /\ v >= 2000) =>
                  /\ 2 * domain_result.score = v + u
                  /\ domain_result.is_finance
            /\ (3500 <= u /\ u < 5000 /\ v < 2000) =>
                  /\ domain_result.score = 0
                  /\ ~domain_result.is_finance
            /\ (u < 3500 /\ pc = "done" /\ ~raised) =>
                  /\ verdict.decision = DECISION_BLOCK
                  /\ verdict.flags = << <<"off_topic">> >>

\* a text the vocabulary scorer takes for finance and the analysis vetoes
C9_Witness ==
    /\ pc = "done"
    /\ ~raised
    /\ DOMAIN content_analysis # {}
    /\ content_analysis.decision # ""
    /\ content_analysis.unified_score < 3500
    /\ vocab_result.score >= 2000
    /\ vocab_result.is_finance
    /\ verdict.flags = << <<"off_topic">> >>

\* C10: each lazily initialised handle is constructed at most once and every
\* get_* call returns the same instance.
C10_SingleWinner ==
    /\ \A h \in Handles : built[h] <= 1
    /\ \A t1 \in Threads, t2 \in Threads, h \in Handles :
          (tgot[t1][h] # 0 /\ tgot[t2][h] # 0) => tgot[t1][h] = tgot[t2][h]

\* the verdict of moderate(world.texts[i]) on a newly constructed moderator
FirstCallVerdict(i) ==
    moderate(config, world.fresh, world.loads, world.texts[i]).verdict

\* C11: with the configuration and the collaborators' responses fixed,
\* every call moderate(t) returns the verdict a newly constructed moderator
\* returns for t, whatever was moderated before it, and moderate_batch(ts)
\* returns one verdict per text, in order, each equal to moderate(ts[i]).
C11_NoCrossCallState ==
    /\ \A k \in 1..Len(returned.calls) :
          returned.calls[k].verdict = FirstCallVerdict(returned.calls[k].text)
    /\ returned.batch # None =>
          /\ Len(returned.batch) = Len(world.texts)
          /\ \A i \in 1..Len(world.texts) : returned.batch[i] = FirstCallVerdict(i)

\* a text that is blocked on its fuzzy match is moderated again, and in a
\* batch, after the moderator has loaded its components
C11_Witness ==
    /\ returned.batch # None
    /\ Len(returned.calls) = 2
    /\ returned.calls[1].text = returned.calls[2].text
    /\ _fuzzy_matcher /\ _semantic_checker /\ _content_analyzer
    /\ returned.calls[2].verdict.decision = DECISION_BLOCK
    /\ \E i \in 1..Len(returned.batch) : returned.batch[i].decision = DECISION_PASS
    /\ \E i \in 1..Len(returned.batch) : returned.batch[i].decision = DECISION_BLOCK

\* what moderate returns for the text of the world, its steps in program order
Sequential == moderate(config, world.fresh, world.loads, world.text)

\* C12: in whatever order steps 3 to 6 run, and however they interleave,
\* each scanner returns the result it returns in the order of moderate, and
\* the verdict is the one moderate returns.
C12_NoOrderingDependency ==
    /\ (pc = "scan" /\ world.text.raises = "none") =>
          /\ scam_result \in { None, Sequential.scam }
          /\ fuzzy_result \in { None, Sequential.fuzzy }
          /\ semantic_result \in { None, Sequential.semantic }
          /\ toxicity_result \in { None, Sequential.toxicity }
    /\ pc = "done" =>
          /\ verdict = Sequential.verdict
          /\ world.text.raises = "none" =>
                /\ scam_result = Sequential.scam
                /\ fuzzy_result = Sequential.fuzzy
                /\ semantic_result = Sequential.semantic
                /\ toxicity_result = Sequential.toxicity

\* the toxicity scan has returned a finding and the semantic check has
\* returned without its model, before the rule scan and the fuzzy matcher
\* have run
C12_Witness ==
    /\ pc = "scan"
    /\ toxicity_result # None /\ toxicity_result.score > 0
    /\ semantic_result # None /\ ~Get(semantic_result, "enabled", TRUE)
    /\ scam_result = None
    /\ fuzzy_result = None
    /\ "fuzzy_matcher" \in invoked

\* C13: when the embedding model cannot be loaded or encoding raises while
\* SemanticChecker.check works on a text that reaches it, check returns
\* score 0, no matches and enabled false, moderate goes on to the toxicity
\* scan, and the verdict it returns is the fusion of the scanners' results,
\* not the system_error verdict.
C13_SemanticDegrades ==
    [][ (Get(semantic_input', "outcome", "") = "model_fails" /\ ~whitelisted') =>
          /\ pc = "semantic" =>
                /\ pc' = "toxicity"
                /\ ~raised'
                /\ semantic_result'.score = 0
                /\ semantic_result'.matches = <<>>
                /\ semantic_result'.enabled = FALSE
          /\ (pc' = "done" /\ ~raised') =>
                /\ verdict' = decide(config', domain_result', scam_result',
                                     toxicity_result', fuzzy_result',
                                     semantic_result').verdict
                /\ verdict' # SystemErrorVerdict
                /\ \A i \in 1..Len(verdict'.flags) : verdict'.flags[i] # << "system_error" >>
      ]_vars

\* a finance text whose semantic check met a failing embedding model has
\* been fused into a verdict
C13_Witness ==
    /\ pc = "done"
    /\ Get(semantic_input, "outcome", "") = "model_fails"
    /\ ~whitelisted
    /\ ~raised
    /\ engine.fused
    /\ semantic_result.enabled = FALSE

\* C14: when the embedding model is absent, the content analysis of a text
\* contributes a unified score of 0 and leaves the domain result as
\* DomainChecker.check returned it: the score and is_finance handed to the
\* decision engine are those of the vocabulary check.
C14_AnalyzerDisabledWithoutModel ==
    (/\ Get(analysis_input, "outcome", "") = "ok"
     /\ ~Get(analysis_input, "model_ok", TRUE)) =>
        /\ content_analysis.unified_score = 0
        /\ domain_result.score = vocab_result.score
        /\ domain_result.is_finance = vocab_result.is_finance

\* C15: for the best template similarity m and the threshold t, check
\* scores 0.5 + (m - t)/(1 - t) * 0.5 when m >= t and (m/t)^2 * 0.5 when
\* m < t, rounded to 3 decimals: exactly 0.5 at m = t, 1.0 at m = 1, 0 at
\* m = 0, and always within [0, 1].
C15_SemanticScore ==
    (world.scanner = "semantic" /\ returned # None) =>
        LET m == SeqMax(world.sims)
            t == world.threshold
            score == returned.score
            Abs(x) == IF x < 0 THEN 0 - x ELSE x
        IN  /\ m >= t =>
                  Abs(score * (One - t) - (5000 * (One - t) + (m - t) * 5000))
                      <= 5 * (One - t)
            /\ m < t =>
                  Abs(score * (t \div 100) * (t \div 100)
                         - (m \div 100) * (m \div 100) * 5000)
                      <= 5 * (t \div 100) * (t \div 100)
            /\ m = t => score = 5000
            /\ m = One => score = One
            /\ m = 0 => score = 0
            /\ 0 <= score /\ score <= One

\* check has scored a text below the threshold, strictly between 0 and 0.5
C15_Witness ==
    /\ world.scanner = "semantic"
    /\ returned # None
    /\ SeqMax(world.sims) = 3600
    /\ world.threshold = 7200
    /\ returned.score = 1250
    /\ ~returned.has_semantic_match

\* the n-gram has at least 10 characters, its best corpus match reaches the
\* threshold and its length is 0.7 to 1.5 times that of the matched phrase
Accepted(g, threshold) ==
    /\ g.len >= 10
    /\ g.similarity >= threshold
    /\ 10 * g.len >= 7 * g.matched_len
    /\ 10 * g.len <= 15 * g.matched_len

\* the result holds a match for this n-gram
Recorded(g, matches) ==
    \E k \in 1..Len(matches) :
        /\ matches[k].input = g.input
        /\ matches[k].matched = g.matched
        /\ matches[k].similarity = g.similarity

\* C16 as stated: check records a match for an n-gram if and only if the
\* n-gram is accepted (similarity >= threshold and length ratio within
\* [0.7, 1.5]).
C16_RecordedIffAccepted ==
    (world.scanner = "fuzzy" /\ returned # None) =>
        \A i \in 1..Len(world.ngrams) :
            Recorded(world.ngrams[i], returned.matches)
                <=> Accepted(world.ngrams[i], world.threshold)

\* C16, amended: every recorded match is of an accepted n-gram, an n-gram
\* that is not accepted records nothing, and an accepted n-gram is recorded
\* if and only if the text holds no whitelist context and no earlier
\* accepted n-gram (other than an occurrence of itself) matched the same
\* phrase; the phrases recorded are pairwise different.
C16_RecordedIffFirstAccepted ==
    (world.scanner = "fuzzy" /\ returned # None) =>
        LET gs == world.ngrams
            ms == returned.matches
            SamePhrase(j, i) == Accepted(gs[j], world.threshold)
                                /\ gs[j].matched = gs[i].matched
            \* the first accepted n-gram that matched the phrase of gs[i]
            \* is gs[i] or another occurrence of it
            First(i) == \E j \in 1..i :
                            /\ SamePhrase(j, i)
                            /\ gs[j].input = gs[i].input
                            /\ \A l \in 1..(j - 1) : ~SamePhrase(l, i)
        IN  /\ \A k \in 1..Len(ms) :
                  \E i \in 1..Len(gs) :
                      /\ Accepted(gs[i], world.threshold)
                      /\ ms[k].input = gs[i].input
                      /\ ms[k].matched = gs[i].matched
            /\ \A i \in 1..Len(gs) :
                  Recorded(gs[i], ms) <=>
                      /\ Accepted(gs[i], world.threshold)
                      /\ ~world.whitelisted
                      /\ First(i)
            /\ \A k, l \in 1..Len(ms) : ms[k].matched = ms[l].matched => k = l

\* check has recorded one spelling of a phrase, dropped a second spelling
\* of the same phrase and rejected a similar n-gram four times as long as
\* its phrase
C16_Witness ==
    /\ world.scanner = "fuzzy"
    /\ returned # None
    /\ ~world.whitelisted
    /\ Len(world.ngrams) = 3
    /\ Len(returned.matches) = 1
    /\ returned.matches[1].input = "gaurenteed returns"
    /\ world.ngrams[2].input = "gaurenteed returns evry"
    /\ world.ngrams[3].len = 38
    /\ world.ngrams[3].similarity >= world.threshold

\* C17: every moderation response has can_proceed true if and only if its
\* decision is PASS, and thesis analysis never runs on a text for which a
\* moderation response other than PASS was given before.
C17_ModerationGatesAnalysis ==
    /\ \A k \in 1..Len(returned) :
          (returned[k].endpoint = "moderate" /\ returned[k].status = 200) =>
              (returned[k].response.can_proceed
                  <=> returned[k].response.decision = DECISION_PASS)
    /\ \A k \in 1..Len(returned) :
          (returned[k].endpoint = "analyze" /\ returned[k].status = 200) =>
              \A j \in 1..(k - 1) :
                  (/\ returned[j].endpoint = "moderate"
                   /\ returned[j].status = 200
                   /\ returned[j].request = returned[k].request) =>
                      returned[j].response.decision = DECISION_PASS

\* C18: for a text with a context reduction r, 0 < r < 0.9, and a raw
\* weight sum s > 0, RuleEngine.check returns the score
\* round(min(1, s * (1 - r)), 3).
C18_SingleMultiplier ==
    (world.scanner = "rule" /\ returned # None) =>
        LET r == returned.context_reduction
            s == WeightSum(SelectSeq2(RulePatterns, world.hits))
        IN  (0 < r /\ r < 9000 /\ s > 0) =>
                returned.score = Round3(Min2(One, Times(s, One - r)))

\* C19: in every result of RuleEngine.check, a context reduction of 0.5 or
\* more leaves no signal, and a context reduction with a score below 0.2
\* leaves no signal of severity medium or high.
C19_SignalsSuppressed ==
    (world.scanner = "rule" /\ returned # None) =>
        /\ returned.context_reduction >= 5000 => returned.signals = <<>>
        /\ (returned.context_reduction > 0 /\ returned.score < 2000) =>
              \A i \in 1..Len(returned.signals) :
                  returned.signals[i].severity \notin { "medium", "high" }

\* check has dropped the high-severity keyword signal of a text that an
\* opinion marker brought below 0.2
C19_Witness ==
    /\ world.scanner = "rule"
    /\ returned # None
    /\ world.hits = { "kw_high" }
    /\ returned.context_reduction = 4000
    /\ returned.score > 0 /\ returned.score < 2000
    /\ returned.signals = <<>>

\* C20: the entity evidence of a text (ORG, MONEY entities that are neither
\* negative-topic terms nor noise) adds at most 0.2 to the domain score:
\* where no other rule of check looks at the entities (the score without
\* them is already 0.25 or more), the score with them is at most 0.2 higher.
C20_EntityBoostCapped ==
    (world.scanner = "domain" /\ returned # None) =>
        LET without == DomainChecker_check(
                           world.text,
                           [ world.linguistic_result EXCEPT !.entities = <<>> ])
        IN  (without.reason = "" /\ returned.reason = "" /\ without.score >= 2500) =>
                returned.score - without.score <= 2000

\* C21 as stated: whenever the text matches a strong finance-category term,
\* DomainChecker.check returns is_finance true with score >= 0.25, also when
\* negative-topic terms or coherence-penalty entries were found.
C21_StrongTermForcesFinance ==
    (/\ world.scanner = "domain"
     /\ returned # None
     /\ \E m \in world.text.matched : m.strong) =>
        (returned.is_finance /\ returned.score >= 2500)

\* C21: whenever the text matches a strong finance-category term,
\* DomainChecker.check returns is_finance true with score >= 0.25 if no
\* negative-topic term and no coherence-penalty entry was found; if one was
\* found, the strong term forces nothing and is_finance is true exactly when
\* the penalised score is at least 0.15.
C21_StrongTermForcesFinanceUnlessNegative ==
    (/\ world.scanner = "domain"
     /\ returned # None
     /\ \E m \in world.text.matched : m.strong) =>
        IF returned.negative_terms_found = 0
        THEN returned.is_finance /\ returned.score >= 2500
        ELSE returned.is_finance <=> returned.score >= 1500

\* a text whose only term is a strong one among 10 words (density 0.1), with
\* nothing negative found: the score returned is the floor
C21_Witness ==
    /\ world.scanner = "domain"
    /\ returned # None
    /\ world.text.words = 10
    /\ Cardinality(world.text.matched) = 1
    /\ \E m \in world.text.matched : m.strong
    /\ returned.negative_terms_found = 0
    /\ Get(world.linguistic_result, "entities", <<>>) = <<>>
    /\ returned.is_finance
    /\ returned.score = 2500

\* the entity evidence of a call: ORG and MONEY entities of an available
\* analysis that are neither negative-topic terms nor noise tokens
EntityEvidence(ling) ==
    /\ Get(ling, "is_available", FALSE)
    /\ \E i \in 1..Len(Get(ling, "entities", <<>>)) :
          LET e == ling.entities[i]
          IN  e.label \in { "ORG", "MONEY" } /\ e.kind = "plain"

\* the texts of the ambiguity rule: terms matched, all of them ambiguous,
\* none strong, no entity evidence
AmbiguousOnly ==
    /\ world.scanner = "domain"
    /\ world.text.matched # {}
    /\ \A m \in world.text.matched : m.ambiguous /\ ~m.strong
    /\ ~EntityEvidence(world.linguistic_result)

\* C22 as stated: for a text whose matched finance terms are all ambiguous,
\* with no strong-signal term and no entity evidence, DomainChecker.check
\* returns score 0.05 and is_finance false regardless of boosts, penalties
\* and word count, texts with no word longer than 2 characters included.
C22_AmbiguousOnlyForced ==
    (AmbiguousOnly /\ returned # None) =>
        (returned.score = 500 /\ ~returned.is_finance)

\* C22: for such a text with at least one word longer than 2 characters,
\* DomainChecker.check returns score 0.05 and is_finance false regardless of
\* boosts and penalties; for one with no word longer than 2 characters it
\* returns score 0.0, is_finance false and no matched terms.
C22_AmbiguousOnlyForcedWithWords ==
    (AmbiguousOnly /\ returned # None) =>
        IF world.text.words > 0
        THEN /\ returned.score = 500
             /\ ~returned.is_finance
             /\ returned.reason = "ambiguous_only"
        ELSE /\ returned.score = 0
             /\ ~returned.is_finance
             /\ returned.matched_terms = {}

\* an ambiguous-only text with a negative-topic term and a sentence that
\* drifts to a person: penalties apply, entities are there, none is evidence
C22_Witness ==
    /\ AmbiguousOnly
    /\ returned # None
    /\ world.text.words > 0
    /\ world.text.negatives > 0
    /\ returned.negative_terms_found > world.text.negatives
    /\ Get(world.linguistic_result, "entities", <<>>) # <<>>
    /\ returned.score = 500

\* C23: for a text that matches no finance term and has a sentence of 6 or
\* more tokens with a topic-defining entity that is not a negative term, the
\* domain scorer applies the coherence penalty (an off_topic_entity entry
\* joins the negative terms found) and DecisionEngine.decide, given that
\* domain result, returns BLOCK with off_topic before risk fusion, whatever
\* the number of ORG and MONEY entities in the text.
C23_OffTopicDriftBlocked ==
    (/\ world.scanner = "domain"
     /\ returned # None
     /\ world.text.words > 0
     /\ world.text.matched = {}
     /\ Get(world.linguistic_result, "has_doc", FALSE)
     /\ DriftSentences(world.linguistic_result.sents) # <<>>) =>
        LET d == decide(config, returned, RuleEngine_check({}, {}),
                        ToxicityChecker_check(FALSE, {}, world.linguistic_result),
                        EmptyMatchResult, EmptyMatchResult)
        IN  /\ returned.negative_terms_found > world.text.negatives
            /\ d.verdict.decision = DECISION_BLOCK
            /\ d.verdict.flags = << <<"off_topic">> >>
            /\ ~d.fused

\* the fixed weight of a toxicity category
CategoryWeight(c) ==
    IF c = "defamation" THEN 7000
    ELSE IF c = "hate_speech" THEN 6000
    ELSE IF c = "spam" THEN 3000
    ELSE LET i == CHOOSE i \in 1..Len(ToxicChecks) : ToxicChecks[i].category = c
         IN  ToxicChecks[i].score

\* the categories a text matches: a term of the pattern set occurs, a hate
\* pattern occurs, a defamation pattern occurs beside a PERSON, ORG or GPE
\* entity, two spam indicators occur
MatchedCategories ==
    { c \in ToxicSetCategories \cup ToxicExtras :
        IF c = "spam" THEN world.count[c] >= 2
        ELSE IF c = "defamation"
        THEN world.count[c] >= 1
             /\ \E i \in 1..Len(world.linguistic_result.entities) :
                   world.linguistic_result.entities[i].label \in { "PERSON", "ORG", "GPE" }
        ELSE world.count[c] >= 1 }

RECURSIVE SumWeights(_)
SumWeights(S) ==
    IF S = {} THEN 0
    ELSE LET c == CHOOSE c \in S : TRUE
         IN  CategoryWeight(c) + SumWeights(S \ { c })

\* C24: ToxicityChecker.check returns score = min(1, sum of the fixed weights
\* of the categories that matched), each category counted once however many
\* of its terms occur; is_toxic is true exactly when score >= 0.3; and with a
\* whitelist-context phrase in the text the result is empty and non-toxic
\* (score 0, no categories, no matches).
C24_ToxicityScore ==
    (world.scanner = "toxicity" /\ returned # None) =>
        /\ returned.is_toxic <=> returned.score >= 3000
        /\ IF world.whitelisted
           THEN /\ returned.score = 0
                /\ ~returned.is_toxic
                /\ returned.categories = <<>>
                /\ returned.matched = <<>>
           ELSE /\ returned.score = Min2(One, SumWeights(MatchedCategories))
                /\ { returned.categories[i] : i \in 1..Len(returned.categories) }
                       = MatchedCategories
                /\ Len(returned.categories) = Cardinality(MatchedCategories)

\* a text with two terms of one category and one of another: the score is
\* the two weights, below the clamp
C24_Witness ==
    /\ world.scanner = "toxicity"
    /\ returned # None
    /\ ~world.whitelisted
    /\ world.count["mild_profanity"] = 2
    /\ world.count["mockery"] = 1
    /\ Cardinality(MatchedCategories) = 2
    /\ returned.score = 7000
    /\ returned.is_toxic

\* C25: in the toxicity scanner a single-token term (no space), of any
\* length, matches only when it occurs delimited by word boundaries, never as
\* a fragment of a longer word; only multi-word phrases match by substring:
\* the rule of the rule scanner's _match_pattern.
C25_SameMatchingRule ==
    (world.scanner = "match" /\ returned # None) =>
        /\ (returned.matched # <<>>) <=> _match_pattern(world.term, world.occurrence)
        /\ (~world.term.spaces /\ world.occurrence = "fragment") => returned.matched = <<>>

\* the highest similarity among the n-grams gs[i], i in S
BestOf(gs, S) ==
    IF S = {} THEN 0
    ELSE LET i == CHOOSE i \in S : \A j \in S : gs[j].similarity <= gs[i].similarity
         IN  gs[i].similarity

C27_LightweightLoadsNoModel ==
    (config = LIGHTWEIGHT_CONFIG) =>
        /\ ~_fuzzy_matcher /\ "fuzzy_matcher" \notin invoked
        /\ ~_semantic_checker /\ "semantic_checker" \notin invoked
        /\ ~(Get(analysis_input, "outcome", "") = "ok"
             /\ Get(analysis_input, "model_ok", FALSE))
        /\ (pc = "done" /\ ~raised /\ "decision_engine" \in invoked) =>
              /\ fuzzy_result = EmptyMatchResult
              /\ semantic_result = EmptyMatchResult

\* ------------------------------------------------------------------------
\* The whitelist_contexts test of each risk scanner within one moderate call
\* ------------------------------------------------------------------------
\* a whitelist context as a text shows it: [spaces, lowercase, cleaned,
\* original]: the phrase of scam_patterns.json contains a space, is written
\* in lower case, and how its lower-cased form occurs in the preprocessed
\* text and in the lower-cased original text (Occurrences: not at all, only
\* inside longer words, or between word boundaries)
WhitelistContexts ==
    [ spaces : BOOLEAN, lowercase : BOOLEAN, cleaned : Occurrences,
      original : Occurrences ]

\* RuleEngine: "self._whitelist.add(term.lower())", "if phrase in text" on
\* the lower-cased cleaned text
RuleEngine_whitelist(context) == context.cleaned # "absent"

\* ToxicityChecker.check: "if context in text_lower" on the cleaned text,
\* the context as the JSON file spells it
ToxicityChecker_whitelist(context) ==
    context.lowercase /\ context.cleaned # "absent"

\* FuzzyMatcher._match_context(context, text) on the cleaned text
_match_context(context) ==
    IF context.spaces THEN context.cleaned # "absent"
    ELSE context.cleaned = "word"

\* SemanticChecker.check: "if context in text_lower" on the original content
SemanticChecker_whitelist(context) ==
    context.lowercase /\ context.original # "absent"

\* what a finance text shows to the four scanners
ContextTexts ==
    [ context : WhitelistContexts,
      hits : { {}, { "kw_high" } },
      ngrams : { <<>> } \cup { << g >> : g \in FuzzyNgrams },
      sims : { NoSimilarity, [ i \in 1..Len(ScamTemplates) |-> 8600 ] },
      toxicity : { {}, { "mild_profanity" } } ]

InitContext ==
    /\ Constructed
    /\ _nlp = "unloaded"
    /\ world \in ContextTexts
    /\ returned = None

\* steps 3 to 7 of moderate on a text the domain checker passed as finance,
\* every component loading and no step raising
ModerateContext ==
    /\ returned = None
    /\ LET t == world
           domain == DomainChecker_check(
                         [ blank |-> FALSE, words |-> 10,
                           matched |-> { m \in FinanceTerms : m.strong },
                           negatives |-> 0 ], _get_empty_result)
           scam == RuleEngine_check(
                       IF RuleEngine_whitelist(t.context) THEN { "whitelist" } ELSE {},
                       t.hits)
           fuzzy == IF config.enable_fuzzy
                    THEN FuzzyMatcher_check(_match_context(t.context), t.ngrams,
                                            config.fuzzy_threshold)
                    ELSE EmptyMatchResult
           semantic == IF config.enable_semantic
                       THEN SemanticChecker_check(TRUE,
                                SemanticChecker_whitelist(t.context), TRUE, t.sims,
                                config.semantic_threshold)
                       ELSE EmptyMatchResult
           toxicity == ToxicityChecker_check(ToxicityChecker_whitelist(t.context),
                                             t.toxicity, _get_empty_result)
       IN  returned' = [ scam_result |-> scam, fuzzy_result |-> fuzzy,
                         semantic_result |-> semantic, toxicity_result |-> toxicity,
                         verdict |-> decide(config, domain, scam, toxicity,
                                            fuzzy, semantic).verdict ]
    /\ UNCHANGED << pipeline_vars, lazy_vars, world >>

NextContext == ModerateContext

SpecContext == InitContext /\ [][NextContext]_vars

\* C28: within one moderate call the four risk scanners agree on whitelist
\* context: when any of the rule engine, the toxicity checker, the fuzzy
\* matcher or the semantic checker short-circuits on a phrase of the shared
\* whitelist_contexts list, all four return a zero score with nothing
\* matched, and the fused risk_score is 0.
C28_WhitelistAgreement ==
    (returned # None
     /\ \/ returned.scam_result.skipped_reason = "strong_whitelist_context"
        \/ Get(returned.toxicity_result, "skipped_context", FALSE)
        \/ Get(returned.fuzzy_result, "skipped_context", FALSE)
        \/ (config.enable_semantic /\ SemanticChecker_whitelist(world.context))) =>
        /\ returned.scam_result.score = 0 /\ returned.scam_result.signals = <<>>
        /\ returned.toxicity_result.score = 0
        /\ returned.toxicity_result.matched = <<>>
        /\ returned.fuzzy_result.score = 0 /\ returned.fuzzy_result.matches = <<>>
        /\ returned.semantic_result.score = 0
        /\ returned.semantic_result.matches = <<>>
        /\ returned.verdict.risk_score = 0

\* C29: rule-scanner signals reach the verdict only from a rule score of 0.2:
\* for a rule result with score below 0.2, decide emits no scam flag and
\* counts none of its signals in high_severity_count, so that with nothing
\* found by the toxicity, fuzzy and semantic scanners the verdict is PASS,
\* even with a high-severity rule signal.
C29_RuleSignalsNeedScore ==
    (/\ world.scanner = "decide"
     /\ returned # None
     /\ returned.fused
     /\ world.scam_result.score < 2000) =>
        /\ \A i \in 1..Len(returned.verdict.flags) :
               returned.verdict.flags[i][1] # "scam"
        /\ returned.high_sev_count =
               _get_fuzzy_flags(world.fuzzy_result).count
               + _get_semantic_flags(world.semantic_result).count
               + _get_toxic_flags(world.toxicity_result).count
        /\ (/\ world.toxicity_result.score = 0
            /\ world.fuzzy_result.score = 0 /\ world.fuzzy_result.matches = <<>>
            /\ world.semantic_result.score = 0
            /\ world.semantic_result.matches = <<>>) =>
              returned.verdict.decision = DECISION_PASS

\* decide has passed a finance text whose rule result carries a
\* high-severity signal at score 0.199 and nothing else
C29_Witness ==
    /\ world.scanner = "decide"
    /\ returned # None
    /\ returned.fused
    /\ world.scam_result.score = 1990
    /\ \E i \in 1..Len(world.scam_result.signals) :
           world.scam_result.signals[i].severity = "high"
    /\ world.toxicity_result.score = 0
    /\ world.fuzzy_result.matches = <<>>
    /\ world.semantic_result.matches = <<>>
    /\ returned.high_sev_count = 0
    /\ returned.verdict.flags = <<>>
    /\ returned.verdict.decision = DECISION_PASS

\* C30: the band the moderator takes for the domain override agrees with the
\* content analyzer's own decision for the same call: the unified_score the
\* moderator reads is at least 0.50 (is_finance forced true) exactly when
\* the analysis decision is PASS, and below 0.35 (score forced to 0) exactly
\* when the analysis decision is BLOCK.
C30_BandAgreesWithDecision ==
    (world.scanner = "analysis" /\ returned # None) =>
        LET analysis == returned.content_analysis
        IN  /\ (analysis.unified_score >= 5000) <=> (analysis.decision = "PASS")
            /\ (analysis.unified_score >= 5000) => returned.domain_result.is_finance
            /\ (analysis.unified_score < 3500) <=> (analysis.decision = "BLOCK")
            /\ (analysis.unified_score < 3500) =>
                  (returned.domain_result.score = 0
                   /\ ~returned.domain_result.is_finance)

====
